---------------------------- MODULE Spec2Model ----------------------------
(***************************************************************************)
(* A model of the chunk download orchestrator (projectDownloadChunk) of    *)
(* the renter: worker selection (findBestWorker), launching (launchWorker, *)
(* managedDownload), the collection loop                                   *)
(* (threadedCollectAndOverdrivePieces), finished / finalize, and the piece *)
(* range derivation (getPieceOffsetAndLen).                                *)
(*                                                                         *)
(* Go indices are kept 0-based for pieces; the per-piece worker lists are  *)
(* TLA+ sequences, so the Go index of element j of a list is j - 1.        *)
(***************************************************************************)
EXTENDS Integers, Sequences, FiniteSets, TLC

VARIABLES
    now,                  \* the wall clock read by time.Now / time.Until
    ctxDone,              \* pdc.ctx has been cancelled
    ec,                   \* the erasure coder: minPieces, segmentSize, partials
    chunkOffset,          \* pdc.chunkOffset
    chunkLength,          \* pdc.chunkLength
    pieceOffset,          \* pdc.pieceOffset
    pieceLength,          \* pdc.pieceLength
    unresolvedWorkers,    \* ws.unresolvedWorkers: worker -> staticExpectedCompletionTime
    resolvedWorkers,      \* the worker set's resolved workers, in resolution order
    workersConsidered,    \* pdc.workersConsidered
    availablePieces,      \* pdc.availablePieces: piece -> sequence of pieceDownload
    dataPieces,           \* pdc.dataPieces: piece -> TRUE when non-nil
    jobQueue,             \* per worker, the read jobs accepted by its staticJobReadQueue
    workerResponseChan,   \* pdc.workerResponseChan
    downloadResponseChan, \* pdc.downloadResponseChan
    launchCount,          \* the loop counter i of managedDownload
    pc                    \* position of the thread that orchestrates the download

downloadVars == <<now, ctxDone, ec, chunkOffset, chunkLength, pieceOffset, pieceLength,
                  unresolvedWorkers, resolvedWorkers, workersConsidered, availablePieces,
                  dataPieces, jobQueue, workerResponseChan, downloadResponseChan,
                  launchCount, pc>>

\* The inputs and the result of one call of findBestWorker on its own.
VARIABLES
    queueEstimate,        \* per worker, what its read queue answers for time and cost
    bestWorker            \* what findBestWorker returned

selectVars == <<queueEstimate, bestWorker>>

SelectIdle == queueEstimate = <<>> /\ bestWorker = <<>>

\* A Merkle range proof being built and verified.
VARIABLES
    leaves,               \* the leaf data of the sector, in order
    proofStart,           \* first leaf of the proof range
    proofEnd,             \* one past the last leaf of the proof range
    proof,                \* the proof hashes
    verified,             \* what VerifyRangeProof returned
    merklePc              \* position of the prover / verifier

merkleVars == <<leaves, proofStart, proofEnd, proof, verified, merklePc>>

MerkleIdle ==
    /\ leaves = <<>> /\ proofStart = 0 /\ proofEnd = 0
    /\ proof = <<>> /\ verified = FALSE /\ merklePc = "idle"

\* A reference counter: the RefCounter object, its file and its write-ahead
\* log.
VARIABLES
    numSectors,           \* rc.numSectors
    newSectorCounts,      \* rc.newSectorCounts: the in-memory overrides
    isUpdateInProgress,   \* rc.isUpdateInProgress: an update session is open
    isDeleted,            \* rc.isDeleted
    file,                 \* the file on disk: whether it exists, and its counters
    wal,                  \* the transactions of the WAL not yet signalled applied
    updates,              \* the updates the callers hold, created and not yet committed
    rcErr,                \* the error the last call returned
    rcPc,                 \* ready, applying a transaction, crashed, recovering
    applyIndex,           \* how many updates of the transaction were applied to the file
    committedFile,        \* the file that the transactions made durable so far add up to
    openSessions,         \* sessions opened by StartUpdate and not yet closed
    replayed              \* the last load re-applied a transaction of the WAL

refCounterVars == <<numSectors, newSectorCounts, isUpdateInProgress, isDeleted, file,
                    wal, updates, rcErr, rcPc, applyIndex, committedFile,
                    openSessions, replayed>>

RefCounterIdle ==
    /\ numSectors = 0 /\ newSectorCounts = <<>> /\ isUpdateInProgress = FALSE
    /\ isDeleted = FALSE /\ file = <<>> /\ wal = <<>> /\ updates = <<>>
    /\ rcErr = "nil" /\ rcPc = "idle" /\ applyIndex = 0 /\ committedFile = <<>>
    /\ openSessions = 0 /\ replayed = FALSE

\* The HasSector job queue of one worker and the host behind it.
VARIABLES
    hsClock,        \* time.Now()
    hsJobs,         \* the jobs created so far, by number
    hsQueue,        \* jq.jobs: the numbers of the queued jobs, oldest first
    hsCooldown,     \* the queue is on cooldown
    hsEstimate,     \* jq.expectedJobTime(): the percentiles of the job time
    hsAddResult,    \* what the last callAddWithEstimate returned
    hsBatch,        \* the batch callNext returned last
    hsInFlight,     \* the responses launched and not yet sent
    hsDelivered,    \* the responses received, with the channel they arrived on
    hostRoots,      \* the sector roots the host stores
    hsPc

hasSectorVars == <<hsClock, hsJobs, hsQueue, hsCooldown, hsEstimate, hsAddResult,
                   hsBatch, hsInFlight, hsDelivered, hostRoots, hsPc>>

HasSectorIdle ==
    /\ hsClock = 0 /\ hsJobs = <<>> /\ hsQueue = <<>> /\ hsCooldown = FALSE
    /\ hsEstimate = <<>> /\ hsAddResult = <<>> /\ hsBatch = <<>>
    /\ hsInFlight = {} /\ hsDelivered = {} /\ hostRoots = {} /\ hsPc = "idle"

\* The worker pool of the renter and the contracts of the contractor.
VARIABLES
    contracts,      \* the host keys the contractor has a contract with
    workers,        \* wp.workers: the worker of each host key
    workerHost,     \* the host key of every worker created so far
    loopSpawned,    \* the workers whose work loop was started
    killed,         \* the workers whose killChan is closed
    contractMap,    \* callUpdate by caller: the contract set it fetched
    poolPc,         \* callUpdate by caller: where it is
    stopped         \* the thread group of the renter is stopped

poolVars == <<contracts, workers, workerHost, loopSpawned, killed, contractMap,
              poolPc, stopped>>

PoolIdle ==
    /\ contracts = {} /\ workers = <<>> /\ workerHost = <<>> /\ loopSpawned = {}
    /\ killed = {} /\ contractMap = <<>> /\ poolPc = <<>> /\ stopped = FALSE

\* The download heap of the renter and the loop that empties it.
VARIABLES
    downloadHeap,       \* r.downloadHeap: the slice of the queued chunks
    chunksAdded,        \* the number of chunks added so far
    distributed,        \* the chunks handed to the workers
    completeDownloads,  \* the chunks whose download is complete
    memoryAvailable,    \* the memory the memory manager can still give out
    memoryHeld,         \* the chunks that hold memory of the memory manager
    nextChunk,          \* threadedDownloadLoop: the chunk it is working on
    loopPc              \* threadedDownloadLoop: where it is

heapVars == <<downloadHeap, chunksAdded, distributed, completeDownloads,
              memoryAvailable, memoryHeld, nextChunk, loopPc>>

HeapIdle ==
    /\ downloadHeap = <<>> /\ chunksAdded = 0 /\ distributed = {}
    /\ completeDownloads = {} /\ memoryAvailable = 0 /\ memoryHeld = {}
    /\ nextChunk = <<>>
    /\ loopPc = "idle"

\* The stream data source of a skylink: its construction and its reads.
VARIABLES
    dsPc,           \* skylinkDataSource: where the call is
    dsWorkerSets,   \* the chunk worker sets built so far
    dsProbes,       \* the HasSector jobs submitted so far
    dsDownloads,    \* the downloads issued so far
    dsCancelled,    \* whether the context of the data source is cancelled
    dsErr,          \* the error skylinkDataSource returned
    sds,            \* the skylinkDataSource returned, <<>> for nil
    readResult      \* what the last ReadAt returned

dataSourceVars == <<dsPc, dsWorkerSets, dsProbes, dsDownloads, dsCancelled,
                    dsErr, sds, readResult>>

DataSourceIdle ==
    /\ dsPc = "idle" /\ dsWorkerSets = 0 /\ dsProbes = 0 /\ dsDownloads = 0
    /\ dsCancelled = FALSE /\ dsErr = "nil" /\ sds = <<>>
    /\ readResult = <<>>

\* The result of a call of needsOverdrive on a download chunk.
VARIABLES
    overdriveResult     \* <<wait, overdrive>>, <<>> before the call

overdriveVars == <<overdriveResult>>

OverdriveIdle == overdriveResult = <<>>

\* A range proof checked by VerifyReaderRangeProof against a reader of leaf
\* data.
VARIABLES
    readerData,           \* the leaves the reader delivers, the last one maybe short
    verifyResult        \* what VerifyReaderRangeProof returned, <<>> before

readerVars == <<readerData, verifyResult>>

ReaderIdle == readerData = <<>> /\ verifyResult = <<>>

\* A contract set and one call of RenewContract on it.
VARIABLES
    renewPc,               \* position of RenewContract
    renewContracts,        \* ids of the contracts in the contract set
    renewAcquired,         \* ids of the contracts that are acquired (locked)
    renewWal,              \* the clear-contract intent of the old contract
    renewTpool,            \* TRUE once the transaction pool holds the renewal set
    renewEvents,           \* changes to the contract set and the old contract, in order
    renewResult            \* what RenewContract returned, "none" before

renewVars == <<renewPc, renewContracts, renewAcquired, renewWal, renewTpool, renewEvents, renewResult>>

RenewIdle ==
    /\ renewPc = "idle" /\ renewContracts = {} /\ renewAcquired = {} /\ renewWal = "none"
    /\ renewTpool = FALSE /\ renewEvents = <<>> /\ renewResult = "none"

\* The state of the parts modelled after the reference counter.
laterVars == <<hasSectorVars, poolVars, heapVars, dataSourceVars, overdriveVars, readerVars, renewVars>>
LaterIdle == HasSectorIdle /\ PoolIdle /\ HeapIdle /\ DataSourceIdle /\ OverdriveIdle /\ ReaderIdle /\ RenewIdle

otherVars == <<selectVars, merkleVars, refCounterVars, laterVars>>
OthersIdle == SelectIdle /\ MerkleIdle /\ RefCounterIdle /\ LaterIdle

\* The state outside the reference counter.
notRefCounterVars == <<downloadVars, selectVars, merkleVars, laterVars>>

\* The state outside the Merkle engine.
notMerkleVars == <<downloadVars, selectVars, refCounterVars, laterVars>>

\* The state outside the HasSector queue.
notHasSectorVars == <<downloadVars, selectVars, merkleVars, refCounterVars, poolVars, heapVars, dataSourceVars, overdriveVars, readerVars, renewVars>>

\* The state outside the worker pool.
notPoolVars == <<downloadVars, selectVars, merkleVars, refCounterVars, hasSectorVars, heapVars, dataSourceVars, overdriveVars, readerVars, renewVars>>

\* The state outside the download heap.
notHeapVars == <<downloadVars, selectVars, merkleVars, refCounterVars, hasSectorVars, poolVars, dataSourceVars, overdriveVars, readerVars, renewVars>>

\* The state outside the stream data source.
notDataSourceVars == <<downloadVars, selectVars, merkleVars, refCounterVars, hasSectorVars, poolVars, heapVars, overdriveVars, readerVars, renewVars>>

\* The state outside the overdrive check.
notOverdriveVars == <<downloadVars, selectVars, merkleVars, refCounterVars, hasSectorVars, poolVars, heapVars, dataSourceVars, readerVars, renewVars>>

\* The state outside the range proof reader.
notReaderVars == <<downloadVars, selectVars, merkleVars, refCounterVars, hasSectorVars, poolVars, heapVars, dataSourceVars, overdriveVars, renewVars>>

\* The state outside the contract renewal.
notRenewVars == <<downloadVars, selectVars, merkleVars, refCounterVars, hasSectorVars, poolVars, heapVars, dataSourceVars, overdriveVars, readerVars>>

vars == <<downloadVars, otherVars>>

---------------------------------------------------------------------------
\* Bounds of the model.

MinPieces == 2
ParityPieces == 0
NumWorkers == 3
MaxTime == 1
MaxProbeTime == 1
MaxOffset == 130
MaxLength == 66

NumPieces == MinPieces + ParityPieces
Pieces == 0 .. (NumPieces - 1)
Workers == 1 .. NumWorkers
NoWorker == 0

\* math.MaxInt64, scaled to fit the integers of the model checker; time.Duration
\* arithmetic wraps at this width.
MaxInt64 == 2^20 - 1

\* uint64 arithmetic of getPieceOffsetAndLen wraps at this modulus (a power of
\* two that every segment size divides, as 2^64 is).
UintMod == 2^30

---------------------------------------------------------------------------
\* Program constants.

workerRankUnlaunchedPiece == 1
workerRankLaunchedPiece == 2
workerRankActivePiece == 3
workerRankLate == 4

SegmentSize == 64
SectorSize == 4194304

\* The 50 milliseconds needsOverdrive adds to its wait, in clock ticks.
OverdriveGrace == 1

\* staticPieceRoots: the root of piece i. The roots of a chunk are distinct.
staticPieceRoots == [i \in Pieces |-> i]

PricePerMS == 1

---------------------------------------------------------------------------
\* Helpers.

Perms(S) == {s \in [1 .. Cardinality(S) -> S] : \A i, j \in DOMAIN s : i # j => s[i] # s[j]}

\* time.Duration addition: int64, wrapping.
DurationAdd(a, b) ==
    LET s == a + b
    IN  IF s > MaxInt64 THEN s - 2 * (MaxInt64 + 1) ELSE s

newPieceDownload(w) ==
    [worker |-> w, launched |-> FALSE, completed |-> FALSE, failed |-> FALSE,
     expectedCompletionTime |-> 0]


---------------------------------------------------------------------------
\* getPieceOffsetAndLen: the offset and length to read from every piece for a
\* read of [offset, offset + length) of the chunk. Returns <<pieceOffset,
\* pieceLength>>.

getPieceOffsetAndLen(e, offset, length) ==
    LET pieceSegmentSize == IF e.partials THEN e.segmentSize ELSE SectorSize
    IN  IF pieceSegmentSize = 0 \/ pieceSegmentSize % SegmentSize # 0
        THEN <<0, SectorSize>>
        ELSE LET po == ((offset \div e.minPieces) \div pieceSegmentSize) * pieceSegmentSize
                 chunkSegmentSize == pieceSegmentSize * e.minPieces
                 sum == offset + length
                 overflow == sum % chunkSegmentSize
                 chunkTerminationOffset ==
                     IF overflow # 0 THEN sum + (chunkSegmentSize - overflow) ELSE sum
                 pieceTerminationOffset == chunkTerminationOffset \div pieceSegmentSize
             IN  <<po, (pieceTerminationOffset - po) % UintMod>>

---------------------------------------------------------------------------
\* findBestWorker.
\*
\* q is what the read queues answer at the moment of the call: q[w].time is
\* callExpectedJobTime, q[w].cost is callExpectedJobCost. uwOrder is the order
\* in which the unresolved workers are visited.

\* The cost adjusted read time: readTime plus the price penalty, saturating
\* at math.MaxInt64.
AdjustedReadTime(readTime, cost, pricePerMSPerWorker) ==
    LET rt == IF readTime < 0 THEN 0 ELSE readTime
        rsPricePenalty == cost \div pricePerMSPerWorker
    IN  IF rsPricePenalty > MaxInt64 THEN MaxInt64
        ELSE IF rt > MaxInt64 - rsPricePenalty THEN MaxInt64
        ELSE rt + rsPricePenalty

\* One iteration of the loop over the unresolved workers. acc carries
\* bestUnresolvedDuration, bestWorkerLate and bestUnresolvedWaitTime.
UnresolvedStep(acc, expected, qw, t, ppw) ==
    LET hasSectorTime == IF expected - t < 0 THEN 0 ELSE expected - t
        readTime == AdjustedReadTime(qw.time, qw.cost, ppw)
        adjustedTotalDuration == DurationAdd(hasSectorTime, readTime)
        betterLateStatus == acc.late /\ hasSectorTime > 0
        betterDuration == adjustedTotalDuration < acc.dur
    IN  [dur  |-> IF betterLateStatus \/ betterDuration
                  THEN adjustedTotalDuration ELSE acc.dur,
         wait |-> IF hasSectorTime > 0 /\ betterDuration
                  THEN hasSectorTime ELSE acc.wait,
         late |-> IF hasSectorTime > 0 THEN FALSE ELSE acc.late]

RECURSIVE UnresolvedLoop(_, _, _, _, _, _, _)
UnresolvedLoop(acc, uwOrder, k, uw, q, t, ppw) ==
    IF k > Len(uwOrder) THEN acc
    ELSE UnresolvedLoop(UnresolvedStep(acc, uw[uwOrder[k]], q[uwOrder[k]], t, ppw),
                        uwOrder, k + 1, uw, q, t, ppw)

\* A launched download that failed or is past its expected completion time.
IsLateDownload(pd, t) ==
    pd.launched /\ (pd.failed \/ pd.expectedCompletionTime < t)

RangeOf(s) == {s[j] : j \in DOMAIN s}

\* The first pass over availablePieces.
lateWorkersOf(ap, t) ==
    {pd.worker : pd \in {x \in UNION {RangeOf(ap[i]) : i \in DOMAIN ap} : IsLateDownload(x, t)}}

piecesAvailableToLaunchOf(ap) ==
    Cardinality({i \in DOMAIN ap :
        \E pd \in RangeOf(ap[i]) : (pd.launched /\ ~pd.failed) \/ ~pd.launched})

unlaunchedWorkersAvailableOf(ap) ==
    \E i \in DOMAIN ap : \E pd \in RangeOf(ap[i]) : ~pd.launched

unlaunchedPiecesOf(ap) ==
    \E i \in DOMAIN ap : ~(\E pd \in RangeOf(ap[i]) : pd.launched /\ ~pd.failed)

inactivePiecesOf(ap, t) ==
    \E i \in DOMAIN ap :
        /\ \E pd \in RangeOf(ap[i]) : IsLateDownload(pd, t)
        /\ ~(\E pd \in RangeOf(ap[i]) : pd.launched /\ ~IsLateDownload(pd, t))

\* The inner loop of the second pass: the workers of one piece, in order. b
\* carries bestKnownRank, bestKnownDuration, bestResolvedWorker,
\* bestPieceIndex and bestWorkerResolved.
RECURSIVE WorkerLoop(_, _, _, _, _, _, _, _)
WorkerLoop(b, activePiece, j, pieceActive, pieceLaunched, lateWorkers, q, ppw) ==
    IF j > Len(activePiece) THEN b
    ELSE
        LET pd == activePiece[j]
            isLate == pd.worker \in lateWorkers
            readTime == AdjustedReadTime(q[pd.worker].time, q[pd.worker].cost, ppw)
            nb == IF (b.rank < workerRankLate /\ isLate) \/ b.dur < readTime
                  THEN b
                  ELSE [rank |-> IF isLate THEN workerRankLate
                                 ELSE IF pieceActive THEN workerRankActivePiece
                                 ELSE IF pieceLaunched THEN workerRankLaunchedPiece
                                 ELSE workerRankUnlaunchedPiece,
                        dur |-> readTime,
                        worker |-> pd.worker,
                        \* bestPieceIndex = uint64(i), i ranging over the
                        \* workers of the piece
                        pieceIndex |-> j - 1,
                        resolved |-> TRUE]
        IN  WorkerLoop(nb, activePiece, j + 1, pieceActive, pieceLaunched,
                       lateWorkers, q, ppw)

\* The outer loop of the second pass: the pieces, in order.
RECURSIVE PieceLoop(_, _, _, _, _, _, _)
PieceLoop(b, ap, i, t, lateWorkers, q, ppw) ==
    IF i >= NumPieces THEN b
    ELSE
        LET activePiece == ap[i]
            \* pieceCompleted is initialised to false and only ever assigned
            \* inside "if pieceCompleted": it stays false.
            pieceCompleted == FALSE
            pieceLaunched == \E pd \in RangeOf(activePiece) : pd.launched
            pieceActive == \E pd \in RangeOf(activePiece) :
                               pd.launched /\ t < pd.expectedCompletionTime
            skip == \/ pieceCompleted
                    \/ (b.rank < workerRankLaunchedPiece /\ pieceLaunched)
                    \/ (b.rank < workerRankActivePiece /\ pieceActive)
            nb == IF skip THEN b
                  ELSE WorkerLoop(b, activePiece, 1, pieceActive, pieceLaunched,
                                  lateWorkers, q, ppw)
        IN  PieceLoop(nb, ap, i + 1, t, lateWorkers, q, ppw)

\* The result is [worker, pieceIndex, sleep, wake, err]: worker = NoWorker is
\* the nil worker, wake tells whether a worker update channel was registered.
findBestWorker(uw, uwOrder, ap, t, q, mp) ==
    LET ppw == PricePerMS * mp
        nullDuration == MaxInt64
        u == UnresolvedLoop([dur |-> nullDuration, late |-> TRUE, wait |-> 0],
                            uwOrder, 1, uw, q, t, ppw)
        numUnresolved == Len(uwOrder)
        potentialPieces == piecesAvailableToLaunchOf(ap) + numUnresolved
        nil == [worker |-> NoWorker, pieceIndex |-> 0, sleep |-> 0,
                wake |-> FALSE, err |-> FALSE]
        b0 == IF numUnresolved > 0
              THEN [rank |-> IF unlaunchedPiecesOf(ap) THEN workerRankUnlaunchedPiece
                             ELSE IF inactivePiecesOf(ap, t) THEN workerRankLaunchedPiece
                             ELSE workerRankActivePiece,
                    dur |-> u.dur, worker |-> NoWorker, pieceIndex |-> 0,
                    resolved |-> FALSE]
              ELSE [rank |-> workerRankLate, dur |-> nullDuration,
                    worker |-> NoWorker, pieceIndex |-> 0, resolved |-> TRUE]
        b == PieceLoop(b0, ap, 0, t, lateWorkersOf(ap, t), q, ppw)
    IN  IF potentialPieces < mp THEN [nil EXCEPT !.err = TRUE]
        ELSE IF ~unlaunchedWorkersAvailableOf(ap) /\ numUnresolved = 0 THEN nil
        ELSE IF ~b.resolved
             THEN [nil EXCEPT !.sleep = IF u.late THEN 0 ELSE u.wait, !.wake = TRUE]
        ELSE [nil EXCEPT !.worker = b.worker, !.pieceIndex = b.pieceIndex]


---------------------------------------------------------------------------
\* launchWorker's update of the worker's status after callAddWithEstimate.
\* The loop is "for _, pieceDownload := range pdc.availablePieces[pieceIndex]"
\* over a slice of pieceDownload values: pieceDownload is a copy of the
\* element, and the assignments to its launched, expectedCompletionTime and
\* failed fields are made to the copy. The slice is left as it was.
markLaunched(ap, pieceIndex, w, added, expectedCompletionTime) == ap

\* handleJobReadResponse: the index of the first piece root equal to the
\* response's sector root, 0 when there is none.
pieceIndexOfRoot(root) ==
    IF \E i \in Pieces : staticPieceRoots[i] = root
    THEN CHOOSE i \in Pieces :
            /\ staticPieceRoots[i] = root
            /\ \A k \in Pieces : staticPieceRoots[k] = root => i <= k
    ELSE 0

\* handleJobReadResponse with its loops ranging over copies of the
\* pieceDownloads, as launchWorker's does: the marks are lost.
handleJobReadResponseAPOnCopies(ap, jrr) == ap

\* handleJobReadResponse, the new availablePieces.
handleJobReadResponseAP(ap, jrr) ==
    LET pieceIndex == pieceIndexOfRoot(jrr.sectorRoot)
    IN  [ap EXCEPT ![pieceIndex] =
            [j \in DOMAIN ap[pieceIndex] |->
                IF ap[pieceIndex][j].worker = jrr.worker
                THEN IF jrr.err
                     THEN [ap[pieceIndex][j] EXCEPT !.failed = TRUE]
                     ELSE [ap[pieceIndex][j] EXCEPT !.completed = TRUE]
                ELSE ap[pieceIndex][j]]]

\* handleJobReadResponse storing the data without looking for the root: the
\* piece index stays at its initial 0.
handleJobReadResponseDPFirstPiece(dp, jrr) ==
    IF jrr.err THEN dp
    ELSE [dp EXCEPT ![0] = TRUE]

\* handleJobReadResponse, the new dataPieces.
handleJobReadResponseDP(dp, jrr) ==
    IF jrr.err THEN dp
    ELSE [dp EXCEPT ![pieceIndexOfRoot(jrr.sectorRoot)] = TRUE]

\* finished: the pieces with a completed download.
completedPiecesOf(ap) ==
    Cardinality({i \in DOMAIN ap : \E pd \in RangeOf(ap[i]) : pd.completed})

\* finished: the pieces with a download that completed or has not failed, plus
\* the unresolved workers.
hopefulPiecesOf(ap, uw) ==
    Cardinality({i \in DOMAIN ap :
        \E pd \in RangeOf(ap[i]) : pd.completed \/ ~pd.failed})
    + Cardinality(DOMAIN uw)

\* finished without the "!pieceDownload.failed" test: every piece with a
\* worker counts as hopeful.
finishedCountingFailed(ap, uw, mp) ==
    IF completedPiecesOf(ap) >= mp THEN "done"
    ELSE IF Cardinality({i \in DOMAIN ap : ap[i] # <<>>}) + Cardinality(DOMAIN uw) < mp
         THEN "err"
    ELSE "wait"

\* finished returns "done" (true, nil), "err" (false, not enough pieces) or
\* "wait" (false, nil).
finished(ap, uw, mp) ==
    IF completedPiecesOf(ap) >= mp THEN "done"
    ELSE IF hopefulPiecesOf(ap, uw) < mp THEN "err"
    ELSE "wait"

\* needsOverdrive taking the latest return over the completed reads too.
needsOverdriveCountingCompleted(ap, t, mp) ==
    LET lwf == {i \in DOMAIN ap : \E pd \in RangeOf(ap[i]) : pd.launched /\ ~pd.failed}
        times == {pd.expectedCompletionTime :
                    pd \in {x \in UNION {RangeOf(ap[i]) : i \in DOMAIN ap} :
                               x.launched /\ ~x.failed}}
        latestReturn == IF times = {} THEN -1
                        ELSE CHOOSE m \in times : \A x \in times : x <= m
        untilLatest == latestReturn - t
    IN  IF Cardinality(lwf) < mp THEN <<0, TRUE>>
        ELSE IF untilLatest <= 0 THEN <<0, TRUE>>
        ELSE <<untilLatest + OverdriveGrace, FALSE>>

\* needsOverdrive returns <<wait, overdrive>>.
needsOverdrive(ap, t, mp) ==
    LET lwf == {i \in DOMAIN ap : \E pd \in RangeOf(ap[i]) : pd.launched /\ ~pd.failed}
        times == {pd.expectedCompletionTime :
                    pd \in {x \in UNION {RangeOf(ap[i]) : i \in DOMAIN ap} :
                               x.launched /\ ~x.failed /\ ~x.completed}}
        \* the zero time.Time is before every expected completion time
        latestReturn == IF times = {} THEN -1
                        ELSE CHOOSE m \in times : \A x \in times : x <= m
        untilLatest == latestReturn - t
    IN  IF Cardinality(lwf) < mp THEN <<0, TRUE>>
        ELSE IF untilLatest <= 0 THEN <<0, TRUE>>
        ELSE <<untilLatest + OverdriveGrace, FALSE>>

\* finalize: the number of bytes it asks Recover for,
\* chunkDLOffset + chunkDLLength.
finalizeRecoverLength(po, mp) == po * mp + po * mp

\* finalize: what can become of the download once enough pieces completed.
\* Recover is the erasure coder's: it fails, or it writes the
\* chunkDLOffset + chunkDLLength bytes asked of it, which it can only do when
\* the pieces hold as many. The buffer is then sliced to
\* [chunkStartWithinData, chunkEndWithinData): an end past the capacity of the
\* buffer is a run time panic, and the capacity is only known to be at least
\* the length.
finalizeOutcomes(po, pl, co, cl, mp) ==
    LET chunkDLOffset == po * mp
        chunkDLLength == po * mp
        n == chunkDLOffset + chunkDLLength
        chunkStartWithinData == co - chunkDLOffset
        chunkEndWithinData == cl + chunkStartWithinData
        sliced == IF chunkEndWithinData <= n THEN {"data"} ELSE {"data", "panic"}
    IN  {"errDecode"} \cup (IF n \div mp <= pl THEN sliced ELSE {})

\* The download chunk learns of the workers the worker set resolved since the
\* last look: each becomes an unlaunched pieceDownload of its piece.
RECURSIVE updateAvailablePieces(_, _, _, _)
updateAvailablePieces(ap, considered, resolved, k) ==
    IF k > Len(resolved) THEN ap
    ELSE LET r == resolved[k]
         IN  updateAvailablePieces(
                 IF r.worker \in considered THEN ap
                 ELSE [ap EXCEPT ![r.piece] = Append(@, newPieceDownload(r.worker))],
                 considered, resolved, k + 1)


---------------------------------------------------------------------------
\* The state machine of one chunk download.

\* What a read queue may answer for callExpectedJobTime and
\* callExpectedJobCost: a fast host, and a slow host that charges for the read.
Profiles == {[time |-> 1, cost |-> 0], [time |-> 2, cost |-> 2 * MinPieces]}
QueueEstimates == [Workers -> Profiles]

\* The read asked of the chunk: <<offset, length>>, the first two chunk
\* segments.
RequestSet == {<<0, 2 * SegmentSize * MinPieces>>}

Alive == pc \in {"launch", "top", "select"}

\* managedDownload up to its launch loop: the state of a new download chunk.
Init ==
    /\ now = 0
    /\ ctxDone = FALSE
    /\ ec = [minPieces |-> MinPieces, segmentSize |-> SegmentSize, partials |-> TRUE]
    /\ \E r \in RequestSet : chunkOffset = r[1] /\ chunkLength = r[2]
    /\ pieceOffset = getPieceOffsetAndLen(ec, chunkOffset, chunkLength)[1]
    /\ pieceLength = getPieceOffsetAndLen(ec, chunkOffset, chunkLength)[2]
    /\ unresolvedWorkers \in [Workers -> 1 .. MaxProbeTime]
    /\ resolvedWorkers = <<>>
    /\ workersConsidered = {}
    /\ availablePieces = [i \in Pieces |-> <<>>]
    /\ dataPieces = [i \in Pieces |-> FALSE]
    /\ jobQueue = [w \in Workers |-> <<>>]
    /\ workerResponseChan = <<>>
    /\ downloadResponseChan = <<>>
    /\ launchCount = 0
    /\ pc = "launch"
    /\ OthersIdle

request == <<ec, chunkOffset, chunkLength, pieceOffset, pieceLength>>

\* The clock advances.
Tick ==
    /\ Alive
    /\ now < MaxTime
    /\ now' = now + 1
    /\ UNCHANGED <<ctxDone, request, unresolvedWorkers, resolvedWorkers,
                   workersConsidered, availablePieces, dataPieces, jobQueue,
                   workerResponseChan, downloadResponseChan, launchCount, pc>>
    /\ UNCHANGED otherVars

\* The caller cancels the context of the download.
Cancel ==
    /\ Alive
    /\ ~ctxDone
    /\ ctxDone' = TRUE
    /\ UNCHANGED <<now, request, unresolvedWorkers, resolvedWorkers,
                   workersConsidered, availablePieces, dataPieces, jobQueue,
                   workerResponseChan, downloadResponseChan, launchCount, pc>>
    /\ UNCHANGED otherVars

\* A HasSector probe of the worker set returns: the worker holds the piece
\* `piece`, or none of the pieces (piece = NumPieces).
WorkerResolves(w, piece) ==
    /\ Alive
    /\ w \in DOMAIN unresolvedWorkers
    /\ unresolvedWorkers' = [x \in DOMAIN unresolvedWorkers \ {w} |-> unresolvedWorkers[x]]
    /\ resolvedWorkers' = IF piece \in Pieces
                          THEN Append(resolvedWorkers, [worker |-> w, piece |-> piece])
                          ELSE resolvedWorkers
    /\ UNCHANGED <<now, ctxDone, request, workersConsidered, availablePieces,
                   dataPieces, jobQueue, workerResponseChan, downloadResponseChan,
                   launchCount, pc>>
    /\ UNCHANGED otherVars

HoldsRoot(w, root) ==
    \E k \in DOMAIN resolvedWorkers :
        resolvedWorkers[k].worker = w /\ staticPieceRoots[resolvedWorkers[k].piece] = root

\* A worker runs the read job at the head of its queue and sends the
\* response. The read can only succeed on a host that holds the sector.
WorkerExecutes(w, ok) ==
    /\ jobQueue[w] # <<>>
    /\ Len(workerResponseChan) < NumPieces * 5
    /\ ok => HoldsRoot(w, Head(jobQueue[w]).sectorRoot)
    /\ jobQueue' = [jobQueue EXCEPT ![w] = Tail(@)]
    /\ workerResponseChan' = Append(workerResponseChan,
            [worker |-> w, sectorRoot |-> Head(jobQueue[w]).sectorRoot, err |-> ~ok])
    /\ UNCHANGED <<now, ctxDone, request, unresolvedWorkers, resolvedWorkers,
                   workersConsidered, availablePieces, dataPieces,
                   downloadResponseChan, launchCount, pc>>
    /\ UNCHANGED otherVars

\* The download chunk's view of the resolved workers at a call of
\* findBestWorker.
Migrated == updateAvailablePieces(availablePieces, workersConsidered, resolvedWorkers, 1)
ConsideredNow == workersConsidered \cup {resolvedWorkers[k].worker : k \in DOMAIN resolvedWorkers}
Selection(q, uwOrder) ==
    findBestWorker(unresolvedWorkers, uwOrder, Migrated, now, q, ec.minPieces)

\* launchWorker, one round of its loop in which waitForWorker returns a
\* worker: the read job is created and offered to the worker's queue.
LaunchWorker(q, uwOrder, added) ==
    /\ pc = "launch"
    /\ LET r == Selection(q, uwOrder)
           ect == now + q[r.worker].time
       IN  /\ ~r.err /\ r.worker # NoWorker
           /\ workersConsidered' = ConsideredNow
           /\ IF r.pieceIndex \notin Pieces
              THEN \* staticPieceRoots[pieceIndex]: index out of range
                   /\ pc' = "panic"
                   /\ availablePieces' = Migrated
                   /\ UNCHANGED <<jobQueue, launchCount>>
              ELSE /\ availablePieces' = markLaunched(Migrated, r.pieceIndex, r.worker, added, ect)
                   /\ jobQueue' = IF added
                                  THEN [jobQueue EXCEPT ![r.worker] = Append(@,
                                          [sectorRoot |-> staticPieceRoots[r.pieceIndex],
                                           expectedCompletionTime |-> ect])]
                                  ELSE jobQueue
                   /\ launchCount' = IF added THEN launchCount + 1 ELSE launchCount
                   /\ pc' = IF added /\ launchCount + 1 >= ec.minPieces THEN "top" ELSE "launch"
    /\ UNCHANGED <<now, ctxDone, request, unresolvedWorkers, resolvedWorkers,
                   dataPieces, workerResponseChan, downloadResponseChan>>
    /\ UNCHANGED otherVars

\* launchWorker when findBestWorker reports that too few workers remain:
\* managedDownload returns the error and starts no collection loop.
LaunchFails(uwOrder) ==
    /\ pc = "launch"
    /\ \E q \in QueueEstimates : Selection(q, uwOrder).err
    /\ workersConsidered' = ConsideredNow
    /\ availablePieces' = Migrated
    /\ pc' = "returnedErr"
    /\ UNCHANGED <<now, ctxDone, request, unresolvedWorkers, resolvedWorkers,
                   dataPieces, jobQueue, workerResponseChan, downloadResponseChan,
                   launchCount>>
    /\ UNCHANGED otherVars

\* waitForWorker when findBestWorker returns no worker and no error: it
\* sleeps until the timer, the wake channel or the context fires. On the
\* timer or the wake channel it loops.
LaunchWaits(q, uwOrder) ==
    /\ pc = "launch"
    /\ LET r == Selection(q, uwOrder) IN ~r.err /\ r.worker = NoWorker
    /\ workersConsidered' = ConsideredNow
    /\ availablePieces' = Migrated
    /\ UNCHANGED <<now, ctxDone, request, unresolvedWorkers, resolvedWorkers,
                   dataPieces, jobQueue, workerResponseChan, downloadResponseChan,
                   launchCount, pc>>
    /\ UNCHANGED otherVars

\* waitForWorker, the context fires during the sleep.
LaunchCancelled(q, uwOrder) ==
    /\ pc = "launch"
    /\ ctxDone
    /\ LET r == Selection(q, uwOrder) IN ~r.err /\ r.worker = NoWorker
    /\ workersConsidered' = ConsideredNow
    /\ availablePieces' = Migrated
    /\ pc' = "returnedErr"
    /\ UNCHANGED <<now, ctxDone, request, unresolvedWorkers, resolvedWorkers,
                   dataPieces, jobQueue, workerResponseChan, downloadResponseChan,
                   launchCount>>
    /\ UNCHANGED otherVars

\* threadedCollectAndOverdrivePieces, finished() reports completion:
\* finalize.
Finalize(outcome) ==
    /\ pc = "top"
    /\ finished(availablePieces, unresolvedWorkers, ec.minPieces) = "done"
    /\ outcome \in finalizeOutcomes(pieceOffset, pieceLength, chunkOffset, chunkLength,
                                    ec.minPieces)
    /\ IF outcome = "panic"
       THEN pc' = "panic" /\ UNCHANGED downloadResponseChan
       ELSE pc' = "done" /\ downloadResponseChan' = Append(downloadResponseChan, outcome)
    /\ UNCHANGED <<now, ctxDone, request, unresolvedWorkers, resolvedWorkers,
                   workersConsidered, availablePieces, dataPieces, jobQueue,
                   workerResponseChan, launchCount>>
    /\ UNCHANGED otherVars

\* threadedCollectAndOverdrivePieces, finished() reports an error: fail.
FailNotEnough ==
    /\ pc = "top"
    /\ finished(availablePieces, unresolvedWorkers, ec.minPieces) = "err"
    /\ downloadResponseChan' = Append(downloadResponseChan, "errNotEnough")
    /\ pc' = "done"
    /\ UNCHANGED <<now, ctxDone, request, unresolvedWorkers, resolvedWorkers,
                   workersConsidered, availablePieces, dataPieces, jobQueue,
                   workerResponseChan, launchCount>>
    /\ UNCHANGED otherVars

\* threadedCollectAndOverdrivePieces, neither: the loop reaches its first
\* select, which has no default case and blocks.
EnterSelect ==
    /\ pc = "top"
    /\ finished(availablePieces, unresolvedWorkers, ec.minPieces) = "wait"
    /\ pc' = "select"
    /\ UNCHANGED <<now, ctxDone, request, unresolvedWorkers, resolvedWorkers,
                   workersConsidered, availablePieces, dataPieces, jobQueue,
                   workerResponseChan, downloadResponseChan, launchCount>>
    /\ UNCHANGED otherVars

\* The select receives a job response: handleJobReadResponse, continue.
CollectResponse ==
    /\ pc = "select"
    /\ workerResponseChan # <<>>
    /\ availablePieces' = handleJobReadResponseAP(availablePieces, Head(workerResponseChan))
    /\ dataPieces' = handleJobReadResponseDP(dataPieces, Head(workerResponseChan))
    /\ workerResponseChan' = Tail(workerResponseChan)
    /\ pc' = "top"
    /\ UNCHANGED <<now, ctxDone, request, unresolvedWorkers, resolvedWorkers,
                   workersConsidered, jobQueue, downloadResponseChan, launchCount>>
    /\ UNCHANGED otherVars

\* The ctx.Done() case without its return: the loop fails and goes on.
CollectCancelledNoReturn ==
    /\ pc = "select"
    /\ ctxDone
    /\ downloadResponseChan' = Append(downloadResponseChan, "errCancelled")
    /\ pc' = "top"
    /\ UNCHANGED <<now, ctxDone, request, unresolvedWorkers, resolvedWorkers,
                   workersConsidered, availablePieces, dataPieces, jobQueue,
                   workerResponseChan, launchCount>>
    /\ UNCHANGED otherVars

\* The select receives from ctx.Done(): fail, return.
CollectCancelled ==
    /\ pc = "select"
    /\ ctxDone
    /\ downloadResponseChan' = Append(downloadResponseChan, "errCancelled")
    /\ pc' = "done"
    /\ UNCHANGED <<now, ctxDone, request, unresolvedWorkers, resolvedWorkers,
                   workersConsidered, availablePieces, dataPieces, jobQueue,
                   workerResponseChan, launchCount>>
    /\ UNCHANGED otherVars

\* The steps of the thread that runs the collection loop.
CollectStep ==
    \/ \E o \in {"data", "errDecode", "panic"} : Finalize(o)
    \/ FailNotEnough
    \/ EnterSelect
    \/ CollectResponse
    \/ CollectCancelled

Next ==
    \/ Tick
    \/ Cancel
    \/ \E w \in Workers, p \in 0 .. NumPieces : WorkerResolves(w, p)
    \/ \E w \in Workers, ok \in BOOLEAN : WorkerExecutes(w, ok)
    \/ \E q \in QueueEstimates, o \in Perms(DOMAIN unresolvedWorkers), a \in BOOLEAN :
          LaunchWorker(q, o, a)
    \/ \E o \in Perms(DOMAIN unresolvedWorkers) : LaunchFails(o)
    \/ \E q \in QueueEstimates, o \in Perms(DOMAIN unresolvedWorkers) : LaunchWaits(q, o)
    \/ \E q \in QueueEstimates, o \in Perms(DOMAIN unresolvedWorkers) : LaunchCancelled(q, o)
    \/ CollectStep

Spec == Init /\ [][Next]_vars


---------------------------------------------------------------------------
\* getPieceOffsetAndLen on its own: the erasure coder, the offset and the
\* length are drawn from bounded sets and managedDownload derives the piece
\* range from them.

Coders == {[minPieces |-> m, segmentSize |-> SegmentSize, partials |-> p] :
              m \in 1 .. MinPieces, p \in BOOLEAN}

OffsetInit ==
    /\ now = 0
    /\ ctxDone = FALSE
    /\ ec \in Coders
    /\ chunkOffset \in 0 .. MaxOffset
    /\ chunkLength \in 1 .. MaxLength
    /\ pieceOffset = 0
    /\ pieceLength = 0
    /\ unresolvedWorkers = [w \in Workers |-> 1]
    /\ resolvedWorkers = <<>>
    /\ workersConsidered = {}
    /\ availablePieces = [i \in Pieces |-> <<>>]
    /\ dataPieces = [i \in Pieces |-> FALSE]
    /\ jobQueue = [w \in Workers |-> <<>>]
    /\ workerResponseChan = <<>>
    /\ downloadResponseChan = <<>>
    /\ launchCount = 0
    /\ pc = "new"
    /\ OthersIdle

\* managedDownload: pieceOffset, pieceLength := getPieceOffsetAndLen(ec, offset, length)
ComputePieceRange ==
    /\ pc = "new"
    /\ pieceOffset' = getPieceOffsetAndLen(ec, chunkOffset, chunkLength)[1]
    /\ pieceLength' = getPieceOffsetAndLen(ec, chunkOffset, chunkLength)[2]
    /\ pc' = "ranged"
    /\ UNCHANGED <<now, ctxDone, ec, chunkOffset, chunkLength, unresolvedWorkers,
                   resolvedWorkers, workersConsidered, availablePieces, dataPieces,
                   jobQueue, workerResponseChan, downloadResponseChan, launchCount>>
    /\ UNCHANGED otherVars

OffsetNext == ComputePieceRange

OffsetSpec == OffsetInit /\ [][OffsetNext]_vars


---------------------------------------------------------------------------
\* Properties of the chunk download.

CollectionStarted == launchCount >= ec.minPieces /\ pc # "launch"
AllDownloads == UNION {RangeOf(availablePieces[i]) : i \in Pieces}
PieceCompleted(i) == \E pd \in RangeOf(availablePieces[i]) : pd.completed

\* C1: a chunk download whose collection loop was started emits exactly one
\* terminal response on its response channel, whichever way the loop ends:
\* never more than one, and one once the loop has ended.
C1_ExactlyOneTerminalResponse ==
    /\ Len(downloadResponseChan) <= 1
    /\ (CollectionStarted /\ pc \in {"done", "panic"}) => Len(downloadResponseChan) = 1

\* C2: every pieceDownload has not (completed and failed), and completed or
\* failed only when launched.
C2_PieceDownloadsCoherent ==
    \A pd \in AllDownloads :
        /\ ~(pd.completed /\ pd.failed)
        /\ (pd.completed \/ pd.failed) => pd.launched

\* C3: dataPieces[i] is set if and only if some pieceDownload of
\* availablePieces[i] is completed.
C3_DataPieceIffCompleted ==
    \A i \in Pieces : dataPieces[i] <=> PieceCompleted(i)

\* C3 witness: a read was answered with data and the piece was stored.
C3_Witness ==
    \E i \in Pieces : dataPieces[i] /\ PieceCompleted(i)

\* The pieces that can still count towards the download: the completed
\* pieces, the other pieces with a worker that has not failed, and the
\* unresolved workers.
PotentialPieces ==
    Cardinality({i \in Pieces : PieceCompleted(i)})
    + Cardinality({i \in Pieces :
          ~PieceCompleted(i) /\ \E pd \in RangeOf(availablePieces[i]) : ~pd.failed})
    + Cardinality(DOMAIN unresolvedWorkers)

Emits == downloadResponseChan = <<>> /\ downloadResponseChan' # <<>>

\* C4 as claimed: a terminal response emitted while fewer than data_pieces
\* pieces can still count is the not-enough-pieces failure.
C4_Original ==
    [][(Emits /\ PotentialPieces < ec.minPieces)
          => downloadResponseChan' = <<"errNotEnough">>]_vars

\* C4 as amended: when the collection loop evaluates finished() while fewer
\* than data_pieces pieces can still count, it emits the not-enough-pieces
\* failure and exits; any terminal response emitted while the count is that
\* low is this failure, or the cancellation failure of a loop that was waiting
\* in its select when the context was cancelled.
C4_NotEnoughOrCancelled ==
    [][/\ (pc = "top" /\ pc' # "top" /\ PotentialPieces < ec.minPieces)
            => (downloadResponseChan' = <<"errNotEnough">> /\ pc' = "done")
       /\ (Emits /\ PotentialPieces < ec.minPieces)
            => \/ downloadResponseChan' = <<"errNotEnough">>
               \/ (downloadResponseChan' = <<"errCancelled">> /\ pc = "select" /\ ctxDone)
      ]_vars

\* C4 witness: the not-enough-pieces failure was emitted with too few pieces
\* left.
C4_Witness ==
    downloadResponseChan = <<"errNotEnough">> /\ PotentialPieces < ec.minPieces

\* C5 as claimed: once the context is cancelled the terminal response of the
\* collection loop is the cancellation failure, and after the loop has exited
\* no job response is integrated and nothing more is sent.
C5_Original ==
    [][/\ (ctxDone /\ CollectionStarted /\ Emits)
            => downloadResponseChan' = <<"errCancelled">>
       /\ (pc \in {"done", "panic"})
            => UNCHANGED <<availablePieces, dataPieces, downloadResponseChan, pc>>
      ]_vars

\* C5 as amended: a collection loop that leaves through the ctx.Done() case
\* of its select emits exactly one cancellation failure and exits; a loop
\* cancelled while it has not yet reached that case may still integrate
\* delivered job responses and end with the outcome of finished() instead.
\* After the loop has exited no job response is integrated into the chunk
\* state and nothing more is sent on the response channel.
C5_CancelledExit ==
    [][/\ (pc = "select" /\ pc' # "select" /\ workerResponseChan' = workerResponseChan)
            => (ctxDone /\ pc' = "done"
                /\ downloadResponseChan' = <<"errCancelled">>
                /\ UNCHANGED <<availablePieces, dataPieces>>)
       /\ (pc \in {"done", "panic"})
            => UNCHANGED <<availablePieces, dataPieces, downloadResponseChan, pc>>
       /\ downloadResponseChan # <<>> => pc = "done"
      ]_vars

\* C5 witness: the loop exited on cancellation and a job response that
\* arrived afterwards sits in the worker response channel.
C5_Witness ==
    /\ ctxDone /\ pc = "done"
    /\ downloadResponseChan = <<"errCancelled">>
    /\ workerResponseChan # <<>>

\* C6: when a launched read is past its expected completion time, no
\* response is waiting and the context is live, the collection loop goes on to
\* its overdrive check and launches another worker: the loop has a step to
\* take.
C6_SlowHostOverdrive ==
    (/\ pc = "select" /\ ~ctxDone /\ workerResponseChan = <<>>
     /\ needsOverdrive(availablePieces, now, ec.minPieces)[2]
     /\ \E w \in Workers : \E k \in DOMAIN jobQueue[w] :
            jobQueue[w][k].expectedCompletionTime <= now
     /\ \E pd \in AllDownloads : ~pd.completed /\ ~pd.failed /\ jobQueue[pd.worker] = <<>>)
    => ENABLED CollectStep

\* C7: when worker A's download of piece p has failed, worker B is the other
\* worker of p and has neither failed nor completed, every other piece is
\* completed and no worker is unresolved, the selection returns B for p.
C7_FailedPieceReselect ==
    \A p \in Pieces : \A a, b \in DOMAIN availablePieces[p] :
        (/\ pc \in {"top", "select"}
         /\ DOMAIN unresolvedWorkers = {}
         /\ workersConsidered = {resolvedWorkers[k].worker : k \in DOMAIN resolvedWorkers}
         /\ Len(availablePieces[p]) = 2 /\ a # b
         /\ availablePieces[p][a].failed /\ ~availablePieces[p][a].completed
         /\ ~availablePieces[p][b].failed /\ ~availablePieces[p][b].completed
         /\ \A i \in Pieces \ {p} : PieceCompleted(i))
        => \A q \in QueueEstimates :
              LET r == findBestWorker(unresolvedWorkers, <<>>, availablePieces, now, q,
                                      ec.minPieces)
              IN  ~r.err /\ r.worker = availablePieces[p][b].worker /\ r.pieceIndex = p

\* The sector roots of the read jobs accepted so far and not yet handled.
SubmittedRoots ==
    LET queued(w) == {<<w, k>> : k \in DOMAIN jobQueue[w]}
    IN  {jobQueue[j[1]][j[2]].sectorRoot : j \in UNION {queued(w) : w \in Workers}}
        \cup {workerResponseChan[k].sectorRoot : k \in DOMAIN workerResponseChan}
SubmittedCount ==
    LET RECURSIVE Sum(_)
        Sum(W) == IF W = {} THEN 0
                  ELSE LET w == CHOOSE x \in W : TRUE
                       IN  Len(jobQueue[w]) + Sum(W \ {w})
    IN  Sum(Workers) + Len(workerResponseChan)

\* C8: when managedDownload starts the collection loop it has submitted
\* exactly data_pieces read jobs, each for a different piece.
C8_InitialLaunchDistinct ==
    [][(pc = "launch" /\ pc' = "top")
          => (SubmittedCount' = ec.minPieces
              /\ Cardinality(SubmittedRoots') = ec.minPieces)]_vars

\* C9: the piece range is segment aligned and covers the requested range:
\* pieceOffset % S = 0, pieceLength % S = 0, pieceOffset * data_pieces <=
\* offset and (pieceOffset + pieceLength) * data_pieces >= offset + length.
C9_PieceRangeAlignedAndCovering ==
    pc = "ranged" =>
        LET S == IF ec.partials THEN ec.segmentSize ELSE SectorSize
            mp == ec.minPieces
        IN  /\ pieceOffset % S = 0
            /\ pieceLength % S = 0
            /\ pieceOffset * mp <= chunkOffset
            /\ pieceOffset + pieceLength >= (chunkOffset + chunkLength + mp - 1) \div mp

\* C10: findBestWorker never returns a worker together with the index of a
\* piece that already has a completed pieceDownload.
C10_CompletedPieceSkipped ==
    pc \in {"top", "select"} =>
        \A q \in QueueEstimates : \A o \in Perms(DOMAIN unresolvedWorkers) :
            LET r == Selection(q, o)
            IN  (r.worker # NoWorker /\ r.pieceIndex \in Pieces)
                    => ~PieceCompleted(r.pieceIndex)


---------------------------------------------------------------------------
\* findBestWorker on its own: a snapshot of the download chunk (the unresolved
\* workers with their expected resolve times, the resolved workers listed by
\* piece, the queue estimates, the clock) is drawn from bounded sets and
\* findBestWorker is called on it once. The worker set keeps its unresolved
\* workers in a Go map, so the call visits them in an order of the runtime's
\* choosing.

MaxResolveTime == 2

\* What the snapshot holds for one worker: still unresolved and expected to
\* resolve at `at`, resolved as holding `piece`, or not part of the chunk.
WorkerStates ==
    {[kind |-> "unresolved", at |-> e, piece |-> 0] : e \in 0 .. MaxResolveTime}
    \cup {[kind |-> "resolved", at |-> 0, piece |-> i] : i \in Pieces}
    \cup {[kind |-> "absent", at |-> 0, piece |-> 0]}

\* The unlaunched pieceDownloads of the workers that hold piece i, in worker
\* order.
RosterPiece(roster, i) ==
    LET holders == SelectSeq([w \in Workers |-> w],
                             LAMBDA w : roster[w].kind = "resolved" /\ roster[w].piece = i)
    IN  [j \in 1 .. Len(holders) |-> newPieceDownload(holders[j])]

SelectInit ==
    /\ now \in 0 .. MaxTime
    /\ ctxDone = FALSE
    /\ ec = [minPieces |-> MinPieces, segmentSize |-> SegmentSize, partials |-> TRUE]
    /\ \E r \in RequestSet : chunkOffset = r[1] /\ chunkLength = r[2]
    /\ pieceOffset = getPieceOffsetAndLen(ec, chunkOffset, chunkLength)[1]
    /\ pieceLength = getPieceOffsetAndLen(ec, chunkOffset, chunkLength)[2]
    /\ \E roster \in [Workers -> WorkerStates] :
          /\ unresolvedWorkers = [w \in {x \in Workers : roster[x].kind = "unresolved"}
                                    |-> roster[w].at]
          /\ availablePieces = [i \in Pieces |-> RosterPiece(roster, i)]
          /\ workersConsidered = {x \in Workers : roster[x].kind = "resolved"}
    /\ resolvedWorkers = <<>>
    /\ dataPieces = [i \in Pieces |-> FALSE]
    /\ jobQueue = [w \in Workers |-> <<>>]
    /\ workerResponseChan = <<>>
    /\ downloadResponseChan = <<>>
    /\ launchCount = 0
    /\ pc = "snapshot"
    /\ queueEstimate \in QueueEstimates
    /\ bestWorker = <<>>
    /\ MerkleIdle
    /\ RefCounterIdle
    /\ LaterIdle

\* pdc.findBestWorker(), the unresolved workers visited in the order uwOrder.
FindBestWorker(uwOrder) ==
    /\ pc = "snapshot"
    /\ bestWorker' = findBestWorker(unresolvedWorkers, uwOrder, availablePieces, now,
                                    queueEstimate, ec.minPieces)
    /\ pc' = "selected"
    /\ UNCHANGED <<now, ctxDone, request, unresolvedWorkers, resolvedWorkers,
                   workersConsidered, availablePieces, dataPieces, jobQueue,
                   workerResponseChan, downloadResponseChan, launchCount,
                   queueEstimate, merkleVars, refCounterVars, laterVars>>

SelectNext == \E o \in Perms(DOMAIN unresolvedWorkers) : FindBestWorker(o)

SelectSpec == SelectInit /\ [][SelectNext]_vars

\* C11: findBestWorker is a function of its input snapshot alone: what a call
\* returned is what the call returns on the same snapshot whatever the order
\* in which the unresolved workers are visited.
C11_FindBestWorkerPure ==
    pc = "selected" =>
        \A o \in Perms(DOMAIN unresolvedWorkers) :
            findBestWorker(unresolvedWorkers, o, availablePieces, now,
                           queueEstimate, ec.minPieces) = bestWorker


---------------------------------------------------------------------------
\* The Merkle range proof engine: BuildRangeProof over a SubtreeReader and
\* VerifyRangeProof.
\*
\* Hashes are symbolic and collision free: the hash of a leaf is
\* <<"leaf", data>>, the hash of an inner node is <<"node", left, right>>.
\* The 64 bit words of the code are WordBits wide.

MaxLeaves == 8
WordBits == 5

leafHash(data) == <<"leaf", data>>
nodeHash(l, r) == <<"node", l, r>>

Bit(n, i) == (n \div (2 ^ i)) % 2
Heights == 0 .. (WordBits - 1)

\* The stack of subtree roots: used has bit i set when stack[i] holds the
\* root of a subtree of height i.
NewStack == [used |-> 0, stack |-> [i \in Heights |-> <<>>]]

\* appendNodeAtHeight: merge with the nodes already at this height and above
\* until a free slot is found.
RECURSIVE MergeUp(_, _, _)
MergeUp(s, node, i) ==
    IF Bit(s.used, i) = 1
    THEN MergeUp(s, nodeHash(s.stack[i], node), i + 1)
    ELSE <<node, i>>

appendNodeAtHeight(s, node, height) ==
    LET m == MergeUp(s, node, height)
    IN  [used |-> (s.used + 2 ^ height) % (2 ^ WordBits),
         stack |-> [s.stack EXCEPT ![m[2]] = m[1]]]

AppendNode(s, node) == appendNodeAtHeight(s, node, 0)

\* Root: fold the nodes of the stack from the lowest to the highest.
RECURSIVE RootFrom(_, _, _)
RootFrom(s, root, i) ==
    IF i >= WordBits THEN root
    ELSE RootFrom(s, IF Bit(s.used, i) = 1 THEN nodeHash(s.stack[i], root) ELSE root, i + 1)

StackRoot(s) ==
    IF s.used = 0 THEN <<>>
    ELSE LET i == CHOOSE k \in Heights :
                      Bit(s.used, k) = 1 /\ \A j \in Heights : j < k => Bit(s.used, j) = 0
         IN  RootFrom(s, s.stack[i], i + 1)

\* The stack after the leaves data[from + 1 .. to] were appended.
RECURSIVE AppendLeaves(_, _, _, _)
AppendLeaves(s, data, from, to) ==
    IF from >= to THEN s
    ELSE AppendLeaves(AppendNode(s, leafHash(data[from + 1])), data, from + 1, to)

\* SubtreeReader.NextSubtreeRoot(n) with the reader at leaf pos of data: the
\* root of the next n leaves, of the leaves that are left when they are
\* fewer, "EOF" when none is left.
NextSubtreeRoot(data, pos, n) ==
    LET to == IF pos + n > Len(data) THEN Len(data) ELSE pos + n
    IN  IF pos >= Len(data) THEN "EOF"
        ELSE StackRoot(AppendLeaves(NewStack, data, pos, to))

\* BuildRangeProof, the hashes of the leaves [0, proofStart): the bits of
\* proofStart from the highest to the lowest.
RECURSIVE BuildLeft(_, _, _, _, _)
BuildLeft(data, start, i, leafIndex, acc) ==
    IF i < 0 \/ leafIndex >= start THEN acc
    ELSE IF Bit(start, i) = 1
         THEN BuildLeft(data, start, i - 1, leafIndex + 2 ^ i,
                        Append(acc, NextSubtreeRoot(data, leafIndex, 2 ^ i)))
         ELSE BuildLeft(data, start, i - 1, leafIndex, acc)

\* BuildRangeProof's second loop taking the set bits of proofEnd - 1.
RECURSIVE BuildRightSetBits(_, _, _, _, _)
BuildRightSetBits(data, endMask, i, pos, acc) ==
    IF i >= WordBits - 1 THEN acc
    ELSE IF Bit(endMask, i) = 1
         THEN IF NextSubtreeRoot(data, pos, 2 ^ i) = "EOF" THEN acc
              ELSE BuildRightSetBits(data, endMask, i + 1, pos + 2 ^ i,
                              Append(acc, NextSubtreeRoot(data, pos, 2 ^ i)))
         ELSE BuildRightSetBits(data, endMask, i + 1, pos, acc)

\* BuildRangeProof, the hashes from proofEnd onward: the clear bits of
\* proofEnd - 1 from the lowest up, until the reader is at its end.
RECURSIVE BuildRight(_, _, _, _, _)
BuildRight(data, endMask, i, pos, acc) ==
    IF i >= WordBits - 1 THEN acc
    ELSE IF Bit(endMask, i) = 0
         THEN IF NextSubtreeRoot(data, pos, 2 ^ i) = "EOF" THEN acc
              ELSE BuildRight(data, endMask, i + 1, pos + 2 ^ i,
                              Append(acc, NextSubtreeRoot(data, pos, 2 ^ i)))
         ELSE BuildRight(data, endMask, i + 1, pos, acc)

\* BuildRangeProof without its Skip of the proof range.
BuildRangeProofNoSkip(start, end, data) ==
    LET left == BuildLeft(data, start, WordBits - 1, 0, <<>>)
    IN  BuildRight(data, end - 1, 0, start, left)

BuildRangeProof(start, end, data) ==
    LET left == BuildLeft(data, start, WordBits - 1, 0, <<>>)
    IN  BuildRight(data, end - 1, 0, start + (end - start), left)

\* VerifyReaderRangeProof, the proof hashes up to proofStart. The result is
\* <<stack, rest of the proof>>.
RECURSIVE VerifyLeft(_, _, _, _)
VerifyLeft(s, start, i, pf) ==
    IF i < 0 \/ pf = <<>> THEN <<s, pf>>
    ELSE IF Bit(start, i) = 1
         THEN VerifyLeft(appendNodeAtHeight(s, Head(pf), i), start, i - 1, Tail(pf))
         ELSE VerifyLeft(s, start, i - 1, pf)

\* VerifyReaderRangeProof, the proof hashes after proofEnd: the set bits of
\* 0 - proofEnd from the lowest up, while proof hashes are left.
RECURSIVE VerifyRight(_, _, _, _)
VerifyRight(s, endMask, i, pf) ==
    IF pf = <<>> \/ i >= WordBits THEN <<s, pf>>
    ELSE IF Bit(endMask, i) = 1
         THEN VerifyRight(appendNodeAtHeight(s, Head(pf), i), endMask, i + 1, Tail(pf))
         ELSE VerifyRight(s, endMask, i + 1, pf)

\* VerifyRangeProof: leafData holds the leaves of the range. FALSE when the
\* leaf data is short or the root differs.
VerifyRangeProof(leafData, start, end, pf, root) ==
    LET l == VerifyLeft(NewStack, start, WordBits - 1, pf)
        mid == AppendLeaves(l[1], leafData, 0, end - start)
        endMask == (2 ^ WordBits - end) % (2 ^ WordBits)
        r == VerifyRight(mid, endMask, 0, l[2])
    IN  /\ Len(leafData) >= end - start
        /\ r[2] = <<>>
        /\ StackRoot(r[1]) = root

\* The root of the sector: the root of all its leaves.
SectorRoot(data) == StackRoot(AppendLeaves(NewStack, data, 0, Len(data)))

\* The sectors of the model: 1 to MaxLeaves leaves, leaf i holding i.
Sectors == {[i \in 1 .. n |-> i] : n \in 1 .. MaxLeaves}

DownloadIdle ==
    /\ now = 0
    /\ ctxDone = FALSE
    /\ ec = [minPieces |-> MinPieces, segmentSize |-> SegmentSize, partials |-> TRUE]
    /\ chunkOffset = 0 /\ chunkLength = 0 /\ pieceOffset = 0 /\ pieceLength = 0
    /\ unresolvedWorkers = <<>>
    /\ resolvedWorkers = <<>>
    /\ workersConsidered = {}
    /\ availablePieces = [i \in Pieces |-> <<>>]
    /\ dataPieces = [i \in Pieces |-> FALSE]
    /\ jobQueue = [w \in Workers |-> <<>>]
    /\ workerResponseChan = <<>>
    /\ downloadResponseChan = <<>>
    /\ launchCount = 0
    /\ pc = "idle"

MerkleInit ==
    /\ DownloadIdle
    /\ SelectIdle
    /\ RefCounterIdle
    /\ LaterIdle
    /\ leaves \in Sectors
    /\ proofStart \in 0 .. (Len(leaves) - 1)
    /\ proofEnd \in (proofStart + 1) .. Len(leaves)
    /\ proof = <<>>
    /\ verified = FALSE
    /\ merklePc = "new"

\* The host builds the proof of the range from the sector.
BuildProof ==
    /\ merklePc = "new"
    /\ proof' = BuildRangeProof(proofStart, proofEnd, leaves)
    /\ merklePc' = "built"
    /\ UNCHANGED <<leaves, proofStart, proofEnd, verified, notMerkleVars>>

\* The renter verifies the proof against the leaves of the range and the
\* root of the sector.
VerifyProof ==
    /\ merklePc = "built"
    /\ verified' = VerifyRangeProof(SubSeq(leaves, proofStart + 1, proofEnd),
                                    proofStart, proofEnd, proof, SectorRoot(leaves))
    /\ merklePc' = "verified"
    /\ UNCHANGED <<leaves, proofStart, proofEnd, proof, notMerkleVars>>

MerkleNext == BuildProof \/ VerifyProof

MerkleSpec == MerkleInit /\ [][MerkleNext]_vars

\* C12: for every leaf count and every range 0 <= a < b <= total leaves, the
\* proof BuildRangeProof produces for [a, b) is accepted by VerifyRangeProof
\* given the leaves a..b and the root of the tree, a = 0 and b = total leaves
\* included.
C12_RangeProofRoundTrip ==
    merklePc = "verified" => verified

\* C12 witness: a proof with hashes on both sides of the range was verified.
C12_Witness ==
    /\ merklePc = "verified" /\ verified
    /\ proofStart > 0 /\ proofEnd < Len(leaves) /\ Len(proof) >= 2


---------------------------------------------------------------------------
\* The reference counter: one 16 bit counter per sector in a file, changed
\* through update sessions whose updates go through a write-ahead log.
\*
\* Every call of the RefCounter holds rc.mu from start to end, so concurrent
\* callers are an interleaving of whole calls. CreateAndApplyTransaction is
\* split at its I/O points, where the process can crash.

MaxSectors == 2
MaxCount == 2
MaxUpdates == 3

refCounterHeaderSize == 8

SectorIndexes == 0 .. MaxSectors

NoFile == [exists |-> FALSE, counts |-> <<>>]

\* The size of the file in bytes: the header, then two bytes per counter.
FileSize(f) == refCounterHeaderSize + 2 * Len(f.counts)

createWriteAtUpdate(sec, val) == [name |-> "writeAt", sec |-> sec, val |-> val]
\* createTruncateUpdate with a length of one counter too many.
createTruncateUpdateOffByOne(newNumSec) ==
    [name |-> "truncate", sec |-> newNumSec + 1, val |-> 0]

createTruncateUpdate(newNumSec) == [name |-> "truncate", sec |-> newNumSec, val |-> 0]
createDeleteUpdate == [name |-> "delete", sec |-> 0, val |-> 0]

Zeros(n) == [k \in 1 .. n |-> 0]

\* One update applied to the file: a write of a counter at its offset (past
\* the end the file grows, zero filled), a truncation to a number of
\* counters, or the removal of the file.
applyUpdate(f, u) ==
    LET c == f.counts
    IN  IF ~f.exists THEN f
        ELSE IF u.name = "writeAt"
        THEN [f EXCEPT !.counts = IF u.sec < Len(c)
                                  THEN [c EXCEPT ![u.sec + 1] = u.val]
                                  ELSE c \o Zeros(u.sec - Len(c)) \o <<u.val>>]
        ELSE IF u.name = "truncate"
        THEN [f EXCEPT !.counts = IF u.sec <= Len(c)
                                  THEN SubSeq(c, 1, u.sec)
                                  ELSE c \o Zeros(u.sec - Len(c))]
        ELSE NoFile

RECURSIVE applyUpdates(_, _)
applyUpdates(f, us) ==
    IF us = <<>> THEN f ELSE applyUpdates(applyUpdate(f, Head(us)), Tail(us))

\* readCount: the counter of sector secIdx, from the overrides when there is
\* one, from the file otherwise.
\* readCount without the test of the sector index.
readCountOfNoBoundCheck(ns, nsc, f, secIdx) ==
    IF secIdx \in DOMAIN nsc THEN [err |-> "nil", val |-> nsc[secIdx]]
    ELSE IF ~f.exists \/ secIdx >= Len(f.counts) THEN [err |-> "EOF", val |-> 0]
    ELSE [err |-> "nil", val |-> f.counts[secIdx + 1]]

readCountOf(ns, nsc, f, secIdx) ==
    IF secIdx >= ns THEN [err |-> "ErrInvalidSectorNumber", val |-> 0]
    ELSE IF secIdx \in DOMAIN nsc THEN [err |-> "nil", val |-> nsc[secIdx]]
    ELSE IF ~f.exists \/ secIdx >= Len(f.counts) THEN [err |-> "EOF", val |-> 0]
    ELSE [err |-> "nil", val |-> f.counts[secIdx + 1]]

readCount(secIdx) == readCountOf(numSectors, newSectorCounts, file, secIdx)

\* Count is readCount under the lock.
Count(secIdx) == readCount(secIdx)

\* A call that returns the error e and changes nothing.
rcFail(e) ==
    /\ rcErr' = e
    /\ UNCHANGED <<numSectors, newSectorCounts, isUpdateInProgress, isDeleted, file,
                   wal, updates, rcPc, applyIndex, committedFile, openSessions,
                   replayed>>

\* sessionError without the test for a deleted counter.
sessionErrorNoDeleteCheck ==
    IF ~isUpdateInProgress THEN "ErrUpdateWithoutUpdateSession" ELSE "nil"

\* The error every call that creates an update starts with: no session, or
\* the counter was deleted.
sessionError ==
    IF ~isUpdateInProgress THEN "ErrUpdateWithoutUpdateSession"
    ELSE IF isDeleted THEN "ErrUpdateAfterDelete"
    ELSE "nil"

\* What a call that created updates leaves alone.
rcSessionFrame ==
    UNCHANGED <<isUpdateInProgress, file, wal, rcPc, applyIndex, committedFile,
                openSessions, replayed>>

RefCounterInit ==
    /\ DownloadIdle
    /\ SelectIdle
    /\ MerkleIdle
    /\ LaterIdle
    /\ numSectors \in 0 .. MaxSectors
    /\ newSectorCounts = <<>>
    /\ isUpdateInProgress = FALSE
    /\ isDeleted = FALSE
    /\ file = [exists |-> TRUE, counts |-> [k \in 1 .. numSectors |-> 1]]
    /\ wal = <<>>
    /\ updates = <<>>
    /\ rcErr = "nil"
    /\ rcPc = "run"
    /\ applyIndex = 0
    /\ committedFile = file
    /\ openSessions = 0
    /\ replayed = FALSE

\* StartUpdate without the test for an open session.
StartUpdateNoSessionCheck ==
    /\ rcPc = "run"
    /\ IF isDeleted THEN rcFail("ErrUpdateAfterDelete")
       ELSE /\ isUpdateInProgress' = TRUE
            /\ openSessions' = openSessions + 1
            /\ rcErr' = "nil"
            /\ UNCHANGED <<numSectors, newSectorCounts, isDeleted, file, wal, updates,
                           rcPc, applyIndex, committedFile, replayed>>
    /\ UNCHANGED notRefCounterVars

\* StartUpdate opens a session. It fails when a session is open and when the
\* counter was deleted.
StartUpdate ==
    /\ rcPc = "run"
    /\ IF isUpdateInProgress THEN rcFail("ErrUpdateSessionOpen")
       ELSE IF isDeleted THEN rcFail("ErrUpdateAfterDelete")
       ELSE /\ isUpdateInProgress' = TRUE
            /\ openSessions' = openSessions + 1
            /\ rcErr' = "nil"
            /\ UNCHANGED <<numSectors, newSectorCounts, isDeleted, file, wal, updates,
                           rcPc, applyIndex, committedFile, replayed>>
    /\ UNCHANGED notRefCounterVars

\* UpdateApplied that does not wait for CreateAndApplyTransaction to return.
UpdateAppliedWhileApplying ==
    /\ rcPc \in {"run", "applying"}
    /\ isUpdateInProgress
    /\ updates = <<>>
    /\ newSectorCounts' = <<>>
    /\ isUpdateInProgress' = FALSE
    /\ openSessions' = openSessions - 1
    /\ rcErr' = "nil"
    /\ UNCHANGED <<numSectors, isDeleted, file, wal, updates, rcPc, applyIndex,
                   committedFile, replayed>>
    /\ UNCHANGED notRefCounterVars

\* UpdateApplied closes the session and clears the overrides. The callers
\* call it once the updates they created are committed, or when they created
\* none.
UpdateApplied ==
    /\ rcPc = "run"
    /\ isUpdateInProgress
    /\ updates = <<>>
    /\ newSectorCounts' = <<>>
    /\ isUpdateInProgress' = FALSE
    /\ openSessions' = openSessions - 1
    /\ rcErr' = "nil"
    /\ UNCHANGED <<numSectors, isDeleted, file, wal, updates, rcPc, applyIndex,
                   committedFile, replayed>>
    /\ UNCHANGED notRefCounterVars

\* Append without the test for an open session.
RefCounterAppendNoSessionCheck ==
    /\ rcPc = "run"
    /\ IF isDeleted THEN rcFail("ErrUpdateAfterDelete")
       ELSE /\ numSectors < MaxSectors
            /\ Len(updates) < MaxUpdates
            /\ numSectors' = numSectors + 1
            /\ newSectorCounts' = (numSectors :> 1) @@ newSectorCounts
            /\ updates' = Append(updates, createWriteAtUpdate(numSectors, 1))
            /\ rcErr' = "nil"
            /\ UNCHANGED isDeleted
            /\ rcSessionFrame
    /\ UNCHANGED notRefCounterVars

\* Append without the count of the new sector.
RefCounterAppendNoCount ==
    /\ rcPc = "run"
    /\ IF sessionError # "nil" THEN rcFail(sessionError)
       ELSE /\ numSectors < MaxSectors
            /\ Len(updates) < MaxUpdates
            /\ numSectors' = numSectors + 1
            /\ newSectorCounts' = (numSectors :> 0) @@ newSectorCounts
            /\ updates' = Append(updates, createWriteAtUpdate(numSectors, 0))
            /\ rcErr' = "nil"
            /\ UNCHANGED isDeleted
            /\ rcSessionFrame
    /\ UNCHANGED notRefCounterVars

\* Append: one more sector, counted once.
RefCounterAppend ==
    /\ rcPc = "run"
    /\ IF sessionError # "nil" THEN rcFail(sessionError)
       ELSE /\ numSectors < MaxSectors
            /\ Len(updates) < MaxUpdates
            /\ numSectors' = numSectors + 1
            /\ newSectorCounts' = (numSectors :> 1) @@ newSectorCounts
            /\ updates' = Append(updates, createWriteAtUpdate(numSectors, 1))
            /\ rcErr' = "nil"
            /\ UNCHANGED isDeleted
            /\ rcSessionFrame
    /\ UNCHANGED notRefCounterVars

\* Increment without the override: only the update is created.
IncrementNoOverride(secIdx) ==
    /\ rcPc = "run"
    /\ IF sessionError # "nil" THEN rcFail(sessionError)
       ELSE IF secIdx >= numSectors THEN rcFail("ErrInvalidSectorNumber")
       ELSE /\ readCount(secIdx).err = "nil"
            /\ readCount(secIdx).val < MaxCount
            /\ Len(updates) < MaxUpdates
            /\ updates' = Append(updates,
                                 createWriteAtUpdate(secIdx, readCount(secIdx).val + 1))
            /\ rcErr' = "nil"
            /\ UNCHANGED <<numSectors, newSectorCounts, isDeleted>>
            /\ rcSessionFrame
    /\ UNCHANGED notRefCounterVars

\* Increment: the callers first check with isIncrementValid that the counter
\* is below its maximum.
Increment(secIdx) ==
    /\ rcPc = "run"
    /\ IF sessionError # "nil" THEN rcFail(sessionError)
       ELSE IF secIdx >= numSectors THEN rcFail("ErrInvalidSectorNumber")
       ELSE /\ readCount(secIdx).err = "nil"
            /\ readCount(secIdx).val < MaxCount
            /\ Len(updates) < MaxUpdates
            /\ newSectorCounts' = (secIdx :> readCount(secIdx).val + 1) @@ newSectorCounts
            /\ updates' = Append(updates,
                                 createWriteAtUpdate(secIdx, readCount(secIdx).val + 1))
            /\ rcErr' = "nil"
            /\ UNCHANGED <<numSectors, isDeleted>>
            /\ rcSessionFrame
    /\ UNCHANGED notRefCounterVars

\* Decrement: the callers first check with isDecrementValid that the counter
\* is above zero.
Decrement(secIdx) ==
    /\ rcPc = "run"
    /\ IF sessionError # "nil" THEN rcFail(sessionError)
       ELSE IF secIdx >= numSectors THEN rcFail("ErrInvalidSectorNumber")
       ELSE /\ readCount(secIdx).err = "nil"
            /\ readCount(secIdx).val > 0
            /\ Len(updates) < MaxUpdates
            /\ newSectorCounts' = (secIdx :> readCount(secIdx).val - 1) @@ newSectorCounts
            /\ updates' = Append(updates,
                                 createWriteAtUpdate(secIdx, readCount(secIdx).val - 1))
            /\ rcErr' = "nil"
            /\ UNCHANGED <<numSectors, isDeleted>>
            /\ rcSessionFrame
    /\ UNCHANGED notRefCounterVars

\* DropSectors that accepts any number of sectors.
DropSectorsNoBoundCheck(numSec) ==
    /\ rcPc = "run"
    /\ IF sessionError # "nil" THEN rcFail(sessionError)
       ELSE /\ Len(updates) < MaxUpdates
            /\ numSectors' = IF numSec > numSectors THEN 0 ELSE numSectors - numSec
            /\ updates' = Append(updates, createTruncateUpdate(numSectors'))
            /\ rcErr' = "nil"
            /\ UNCHANGED <<newSectorCounts, isDeleted>>
            /\ rcSessionFrame
    /\ UNCHANGED notRefCounterVars

\* DropSectors: the last numSec sectors are dropped.
DropSectors(numSec) ==
    /\ rcPc = "run"
    /\ IF sessionError # "nil" THEN rcFail(sessionError)
       ELSE IF numSec > numSectors THEN rcFail("ErrInvalidSectorNumber")
       ELSE /\ Len(updates) < MaxUpdates
            /\ numSectors' = numSectors - numSec
            /\ updates' = Append(updates, createTruncateUpdate(numSectors - numSec))
            /\ rcErr' = "nil"
            /\ UNCHANGED <<newSectorCounts, isDeleted>>
            /\ rcSessionFrame
    /\ UNCHANGED notRefCounterVars

\* Swap that creates only the write of the first counter.
SwapOneWrite(firstIdx, secondIdx) ==
    /\ rcPc = "run"
    /\ IF sessionError # "nil" THEN rcFail(sessionError)
       ELSE IF firstIdx >= numSectors \/ secondIdx >= numSectors
            THEN rcFail("ErrInvalidSectorNumber")
       ELSE /\ readCount(firstIdx).err = "nil"
            /\ readCount(secondIdx).err = "nil"
            /\ Len(updates) + 2 <= MaxUpdates
            /\ newSectorCounts' = (firstIdx :> readCount(secondIdx).val)
                                  @@ (secondIdx :> readCount(firstIdx).val)
                                  @@ newSectorCounts
            /\ updates' = Append(updates,
                                 createWriteAtUpdate(firstIdx, readCount(secondIdx).val))
            /\ rcErr' = "nil"
            /\ UNCHANGED <<numSectors, isDeleted>>
            /\ rcSessionFrame
    /\ UNCHANGED notRefCounterVars

\* Swap: the counters of two sectors change places.
Swap(firstIdx, secondIdx) ==
    /\ rcPc = "run"
    /\ IF sessionError # "nil" THEN rcFail(sessionError)
       ELSE IF firstIdx >= numSectors \/ secondIdx >= numSectors
            THEN rcFail("ErrInvalidSectorNumber")
       ELSE /\ readCount(firstIdx).err = "nil"
            /\ readCount(secondIdx).err = "nil"
            /\ Len(updates) + 2 <= MaxUpdates
            /\ newSectorCounts' = (firstIdx :> readCount(secondIdx).val)
                                  @@ (secondIdx :> readCount(firstIdx).val)
                                  @@ newSectorCounts
            /\ updates' = updates \o
                   <<createWriteAtUpdate(firstIdx, readCount(secondIdx).val),
                     createWriteAtUpdate(secondIdx, readCount(firstIdx).val)>>
            /\ rcErr' = "nil"
            /\ UNCHANGED <<numSectors, isDeleted>>
            /\ rcSessionFrame
    /\ UNCHANGED notRefCounterVars

\* DeleteRefCounter: the counter is marked as deleted, its file goes when the
\* update is applied.
DeleteRefCounter ==
    /\ rcPc = "run"
    /\ IF sessionError # "nil" THEN rcFail(sessionError)
       ELSE /\ Len(updates) < MaxUpdates
            /\ isDeleted' = TRUE
            /\ updates' = Append(updates, createDeleteUpdate)
            /\ rcErr' = "nil"
            /\ UNCHANGED <<numSectors, newSectorCounts>>
            /\ rcSessionFrame
    /\ UNCHANGED notRefCounterVars

\* CreateAndApplyTransaction up to the point where the transaction is
\* durable in the WAL (NewTransaction, SignalSetupComplete).
CreateAndApplyTransaction ==
    /\ rcPc = "run"
    /\ IF ~isUpdateInProgress THEN rcFail("ErrUpdateWithoutUpdateSession")
       ELSE /\ updates # <<>>
            /\ wal' = Append(wal, updates)
            /\ committedFile' = applyUpdates(committedFile, updates)
            /\ updates' = <<>>
            /\ applyIndex' = 0
            /\ rcPc' = "applying"
            /\ UNCHANGED <<numSectors, newSectorCounts, isUpdateInProgress, isDeleted,
                           file, rcErr, openSessions, replayed>>
    /\ UNCHANGED notRefCounterVars

\* CreateAndApplyTransaction, the next update is applied to the file.
ApplyNextUpdate ==
    /\ rcPc = "applying"
    /\ applyIndex < Len(wal[Len(wal)])
    /\ file' = applyUpdate(file, wal[Len(wal)][applyIndex + 1])
    /\ applyIndex' = applyIndex + 1
    /\ UNCHANGED <<numSectors, newSectorCounts, isUpdateInProgress, isDeleted, wal,
                   updates, rcErr, rcPc, committedFile, openSessions, replayed>>
    /\ UNCHANGED notRefCounterVars

\* CreateAndApplyTransaction, all updates are applied: SignalUpdatesApplied
\* and return.
SignalUpdatesApplied ==
    /\ rcPc = "applying"
    /\ applyIndex = Len(wal[Len(wal)])
    /\ wal' = SubSeq(wal, 1, Len(wal) - 1)
    /\ applyIndex' = 0
    /\ rcErr' = "nil"
    /\ rcPc' = "run"
    /\ UNCHANGED <<numSectors, newSectorCounts, isUpdateInProgress, isDeleted, file,
                   updates, committedFile, openSessions, replayed>>
    /\ UNCHANGED notRefCounterVars

\* The process stops: what is in memory is lost, the file and the WAL stay.
Crash ==
    /\ rcPc \in {"run", "applying", "recovering"}
    /\ numSectors' = 0
    /\ newSectorCounts' = <<>>
    /\ isUpdateInProgress' = FALSE
    /\ isDeleted' = FALSE
    /\ updates' = <<>>
    /\ rcErr' = "nil"
    /\ applyIndex' = 0
    /\ openSessions' = 0
    /\ replayed' = FALSE
    /\ rcPc' = "crashed"
    /\ UNCHANGED <<file, wal, committedFile>>
    /\ UNCHANGED notRefCounterVars

\* loadWal: the WAL is read and the file is opened.
loadWal ==
    /\ rcPc = "crashed"
    /\ file.exists
    /\ applyIndex' = 0
    /\ rcPc' = "recovering"
    /\ UNCHANGED <<numSectors, newSectorCounts, isUpdateInProgress, isDeleted, file,
                   wal, updates, rcErr, committedFile, openSessions, replayed>>
    /\ UNCHANGED notRefCounterVars

\* loadWal, the next update of the first outstanding transaction is applied.
RecoverApply ==
    /\ rcPc = "recovering"
    /\ wal # <<>>
    /\ applyIndex < Len(Head(wal))
    /\ file' = applyUpdate(file, Head(wal)[applyIndex + 1])
    /\ applyIndex' = applyIndex + 1
    /\ UNCHANGED <<numSectors, newSectorCounts, isUpdateInProgress, isDeleted, wal,
                   updates, rcErr, rcPc, committedFile, openSessions, replayed>>
    /\ UNCHANGED notRefCounterVars

\* loadWal that signals a transaction as applied without applying it.
RecoverSignalWithoutApply ==
    /\ rcPc = "recovering"
    /\ wal # <<>>
    /\ wal' = Tail(wal)
    /\ applyIndex' = 0
    /\ replayed' = TRUE
    /\ UNCHANGED <<numSectors, newSectorCounts, isUpdateInProgress, isDeleted, file,
                   updates, rcErr, rcPc, committedFile, openSessions>>
    /\ UNCHANGED notRefCounterVars

\* loadWal, the updates of the transaction are applied: SignalUpdatesApplied.
RecoverSignal ==
    /\ rcPc = "recovering"
    /\ wal # <<>>
    /\ applyIndex = Len(Head(wal))
    /\ wal' = Tail(wal)
    /\ applyIndex' = 0
    /\ replayed' = TRUE
    /\ UNCHANGED <<numSectors, newSectorCounts, isUpdateInProgress, isDeleted, file,
                   updates, rcErr, rcPc, committedFile, openSessions>>
    /\ UNCHANGED notRefCounterVars

\* LoadRefCounter: a new RefCounter for the file, its number of sectors
\* taken from the size of the file.
LoadRefCounter ==
    /\ rcPc = "recovering"
    /\ wal = <<>>
    /\ file.exists
    /\ numSectors' = Len(file.counts)
    /\ newSectorCounts' = <<>>
    /\ isUpdateInProgress' = FALSE
    /\ isDeleted' = FALSE
    /\ rcErr' = "nil"
    /\ rcPc' = "run"
    /\ UNCHANGED <<file, wal, updates, applyIndex, committedFile, openSessions, replayed>>
    /\ UNCHANGED notRefCounterVars

\* The calls that create updates, and the call that commits them.
UpdateCall ==
    \/ RefCounterAppend
    \/ \E i \in SectorIndexes : Decrement(i)
    \/ DeleteRefCounter
    \/ \E n \in 0 .. (MaxSectors + 1) : DropSectors(n)
    \/ \E i \in SectorIndexes : Increment(i)
    \/ \E i, j \in SectorIndexes : Swap(i, j)

RefCounterNext ==
    \/ StartUpdate
    \/ UpdateApplied
    \/ UpdateCall
    \/ CreateAndApplyTransaction
    \/ ApplyNextUpdate
    \/ SignalUpdatesApplied
    \/ Crash
    \/ loadWal
    \/ RecoverApply
    \/ RecoverSignal
    \/ LoadRefCounter

RefCounterSpec == RefCounterInit /\ [][RefCounterNext]_vars


\* C13: with no update session open, each of Append, Decrement,
\* DeleteRefCounter, DropSectors, Increment, Swap and
\* CreateAndApplyTransaction fails with ErrUpdateWithoutUpdateSession and
\* leaves the number of sectors, the overrides, the file, the updates and the
\* WAL as they were.
C13_NoUpdateWithoutSession ==
    [][(rcPc = "run" /\ ~isUpdateInProgress /\ (UpdateCall \/ CreateAndApplyTransaction))
          => (/\ rcErr' = "ErrUpdateWithoutUpdateSession"
              /\ UNCHANGED <<numSectors, newSectorCounts, file, updates, wal>>)]_vars

C13_Witness ==
    /\ rcPc = "run"
    /\ ~isUpdateInProgress
    /\ ~isDeleted
    /\ rcErr = "ErrUpdateWithoutUpdateSession"
    /\ numSectors > 0
    /\ file.exists

\* C14: once DeleteRefCounter was called in a session, every later Append,
\* Decrement, DeleteRefCounter, DropSectors, Increment and Swap of that
\* session fails with ErrUpdateAfterDelete and changes nothing; once the
\* session is closed StartUpdate fails with ErrUpdateAfterDelete and opens no
\* session; no update is created and no session is opened again.
C14_NoUpdateAfterDelete ==
    [][(rcPc = "run" /\ isDeleted)
          => (/\ (isUpdateInProgress /\ UpdateCall)
                    => (/\ rcErr' = "ErrUpdateAfterDelete"
                        /\ UNCHANGED <<numSectors, newSectorCounts, file, updates>>)
              /\ (~isUpdateInProgress /\ StartUpdate)
                    => (rcErr' = "ErrUpdateAfterDelete" /\ ~isUpdateInProgress')
              /\ Len(updates') <= Len(updates)
              /\ openSessions' <= openSessions)]_vars

C14_Witness ==
    /\ rcPc = "run"
    /\ isDeleted
    /\ ~isUpdateInProgress
    /\ rcErr = "ErrUpdateAfterDelete"
    /\ ~file.exists

C16_CountReflectsUpdates ==
    /\ [](LET expected == applyUpdates(committedFile, updates)
          IN  (rcPc = "run" /\ expected.exists)
                 => (/\ numSectors = Len(expected.counts)
                     /\ \A i \in 0 .. (numSectors - 1) :
                           Count(i) = [err |-> "nil", val |-> expected.counts[i + 1]]))
    /\ [][\A i \in SectorIndexes :
             /\ (Increment(i) /\ rcErr' = "nil")
                   => (readCountOf(numSectors', newSectorCounts', file', i)
                          = [err |-> "nil", val |-> readCount(i).val + 1])
             /\ (Decrement(i) /\ rcErr' = "nil")
                   => (readCountOf(numSectors', newSectorCounts', file', i)
                          = [err |-> "nil", val |-> readCount(i).val - 1])
             /\ ((SignalUpdatesApplied \/ UpdateApplied) /\ file'.exists)
                   => (readCountOf(numSectors', newSectorCounts', file', i)
                          = readCountOf(numSectors, newSectorCounts, committedFile, i))]_vars

C16_Witness ==
    /\ rcPc = "run"
    /\ isUpdateInProgress
    /\ ~isDeleted
    /\ updates # <<>>
    /\ \E i \in DOMAIN newSectorCounts :
          /\ i < numSectors
          /\ i < Len(file.counts)
          /\ newSectorCounts[i] = file.counts[i + 1] + 1


\* C17: after a crash at any point, once loadWal has replayed the WAL and
\* LoadRefCounter has loaded the file, the file is the fold of the
\* transactions made durable before the crash over the initial counts, a
\* transaction that was durable but not or partly applied included; every
\* Count(i) reads that value, the WAL holds no transaction and there are no
\* overrides.
C17_CrashRecovery ==
    [][LoadRefCounter
          => (/\ file' = committedFile
              /\ wal' = <<>>
              /\ newSectorCounts' = <<>>
              /\ numSectors' = Len(committedFile.counts)
              /\ \A i \in 0 .. (numSectors' - 1) :
                    readCountOf(numSectors', newSectorCounts', file', i)
                       = [err |-> "nil", val |-> committedFile.counts[i + 1]])]_vars

C17_Witness ==
    /\ rcPc = "run"
    /\ replayed
    /\ ~isUpdateInProgress
    /\ updates = <<>>
    /\ wal = <<>>
    /\ newSectorCounts = <<>>
    /\ file = committedFile
    /\ numSectors = Len(file.counts)
    /\ \E i \in 1 .. Len(file.counts) : file.counts[i] # 1


\* C18 as stated: in every state of a reference counter whose file exists,
\* the size of the file is the size of the header plus two bytes per sector.
C18_FileSizeAlways ==
    (rcPc \in {"run", "applying"} /\ file.exists)
       => FileSize(file) = refCounterHeaderSize + 2 * numSectors

\* C18: whenever the file of a reference counter exists and every update
\* created so far is committed and applied (none is pending in the session
\* and no transaction is being applied), the size of the file is the size of
\* the header plus two bytes per sector.
C18_FileSizeWhenCommitted ==
    (rcPc = "run" /\ file.exists /\ updates = <<>>)
       => FileSize(file) = refCounterHeaderSize + 2 * numSectors

C18_Witness ==
    /\ rcPc = "run"
    /\ file.exists
    /\ updates = <<>>
    /\ isUpdateInProgress
    /\ newSectorCounts # <<>>
    /\ FileSize(file) = refCounterHeaderSize + 2 * numSectors
    /\ FileSize(file) < refCounterHeaderSize + 2 * MaxSectors

\* C19: a successful Append increases the number of sectors by exactly one
\* and the new last counter reads 1 at once, also when there was no sector;
\* the file the pending updates produce is exactly two bytes larger with the
\* update of Append than without it and its last counter is 1; and the
\* commit of a transaction leaves exactly that file on disk.
C19_Append ==
    /\ [][(RefCounterAppend /\ rcErr' = "nil")
             => LET before == applyUpdates(committedFile, updates)
                    after == applyUpdates(committedFile, updates')
                IN  /\ numSectors' = numSectors + 1
                    /\ readCountOf(numSectors', newSectorCounts', file', numSectors' - 1)
                          = [err |-> "nil", val |-> 1]
                    /\ FileSize(after) = FileSize(before) + 2
                    /\ Len(after.counts) = numSectors'
                    /\ after.counts[numSectors'] = 1]_vars
    /\ [][CreateAndApplyTransaction
             => (rcErr' = "nil" => committedFile' = applyUpdates(committedFile, updates))]_vars
    /\ [][SignalUpdatesApplied => file' = committedFile]_vars

C19_Witness ==
    /\ rcPc = "run"
    /\ isUpdateInProgress
    /\ updates = <<>>
    /\ numSectors = MaxSectors
    /\ numSectors - 1 \in DOMAIN newSectorCounts
    /\ newSectorCounts[numSectors - 1] = 1
    /\ file.exists
    /\ Len(file.counts) = numSectors
    /\ file.counts[numSectors] = 1
    /\ file.counts[1] = 0

\* C20: in an open session of a counter that is not deleted, DropSectors(n)
\* with n above the number of sectors fails with ErrInvalidSectorNumber and
\* changes nothing; otherwise the number of sectors decreases by n, the file
\* the pending updates produce is 2n bytes smaller with the update of
\* DropSectors than without it, reading a dropped index fails with
\* ErrInvalidSectorNumber, and dropping every sector leaves a file of the
\* header only.
C20_DropSectors ==
    [][\A n \in 0 .. (MaxSectors + 1) :
          (isUpdateInProgress /\ ~isDeleted /\ DropSectors(n))
             => IF n > numSectors
                THEN /\ rcErr' = "ErrInvalidSectorNumber"
                     /\ UNCHANGED <<numSectors, newSectorCounts, file, updates, wal>>
                ELSE LET before == applyUpdates(committedFile, updates)
                         after == applyUpdates(committedFile, updates')
                     IN  /\ rcErr' = "nil"
                         /\ numSectors' = numSectors - n
                         /\ FileSize(after) = FileSize(before) - 2 * n
                         /\ \A i \in numSectors' .. (numSectors - 1) :
                               readCountOf(numSectors', newSectorCounts', file', i).err
                                  = "ErrInvalidSectorNumber"
                         /\ (n = numSectors) => (FileSize(after) = refCounterHeaderSize)]_vars

C20_Witness ==
    /\ rcPc = "run"
    /\ isUpdateInProgress
    /\ ~isDeleted
    /\ updates = <<>>
    /\ newSectorCounts # <<>>
    /\ numSectors = 0
    /\ file.exists
    /\ FileSize(file) = refCounterHeaderSize
    /\ readCount(0).err = "ErrInvalidSectorNumber"


\* C21: a successful Swap(i, j) makes Count(i) the former Count(j) and
\* Count(j) the former Count(i) and leaves every other count and the number
\* of sectors as they were; the file the pending updates produce has the two
\* counters exchanged and no other changed; Swap(i, i) changes no count; and
\* whenever a call can be made the file on disk is the result of whole
\* transactions, never of one of the two writes alone.
C21_Swap ==
    /\ [][\A i, j \in SectorIndexes :
             (Swap(i, j) /\ rcErr' = "nil")
                => LET before == applyUpdates(committedFile, updates)
                       after == applyUpdates(committedFile, updates')
                       CountAfter(k) == readCountOf(numSectors', newSectorCounts', file', k)
                   IN  /\ numSectors' = numSectors
                       /\ CountAfter(i) = Count(j)
                       /\ CountAfter(j) = Count(i)
                       /\ \A k \in 0 .. (numSectors - 1) :
                             (k # i /\ k # j) => CountAfter(k) = Count(k)
                       /\ Len(after.counts) = Len(before.counts)
                       /\ after.counts[i + 1] = before.counts[j + 1]
                       /\ after.counts[j + 1] = before.counts[i + 1]
                       /\ \A k \in 1 .. Len(before.counts) :
                             (k # i + 1 /\ k # j + 1) => after.counts[k] = before.counts[k]
                       /\ (i = j) => (after = before)]_vars
    /\ [](rcPc = "run" => file = committedFile)

C21_Witness ==
    /\ rcPc = "run"
    /\ isUpdateInProgress
    /\ Len(updates) >= 2
    /\ LET u1 == updates[Len(updates) - 1]
           u2 == updates[Len(updates)]
       IN  /\ u1.name = "writeAt"
           /\ u2.name = "writeAt"
           /\ u1.sec # u2.sec
           /\ u1.val # u2.val
           /\ u1.sec < numSectors
           /\ u2.sec < numSectors
           /\ Count(u1.sec).val = u1.val
           /\ Count(u2.sec).val = u2.val
           /\ u1.sec < Len(file.counts)
           /\ u2.sec < Len(file.counts)
           /\ file.counts[u1.sec + 1] = u2.val
           /\ file.counts[u2.sec + 1] = u1.val


C23_InvalidSectorNumberAlways ==
    /\ [](rcPc = "run"
             => \A i \in SectorIndexes :
                   i >= numSectors => Count(i).err = "ErrInvalidSectorNumber")
    /\ [][\A i \in SectorIndexes :
             (/\ rcPc = "run"
              /\ i >= numSectors
              /\ \/ Increment(i)
                 \/ Decrement(i)
                 \/ \E j \in SectorIndexes : Swap(i, j) \/ Swap(j, i))
                => (/\ rcErr' = "ErrInvalidSectorNumber"
                    /\ UNCHANGED <<numSectors, newSectorCounts, file, updates>>)]_vars

\* C23: Count called with a sector index that is not below the number of
\* sectors returns ErrInvalidSectorNumber; so do Increment, Decrement and
\* Swap when a session is open and the counter is not deleted, and they
\* change neither the number of sectors nor any count, override or update.
C23_InvalidSectorNumber ==
    /\ [](rcPc = "run"
             => \A i \in SectorIndexes :
                   i >= numSectors => Count(i).err = "ErrInvalidSectorNumber")
    /\ [][\A i \in SectorIndexes :
             (/\ rcPc = "run"
              /\ isUpdateInProgress
              /\ ~isDeleted
              /\ i >= numSectors
              /\ \/ Increment(i)
                 \/ Decrement(i)
                 \/ \E j \in SectorIndexes : Swap(i, j) \/ Swap(j, i))
                => (/\ rcErr' = "ErrInvalidSectorNumber"
                    /\ UNCHANGED <<numSectors, newSectorCounts, file, updates>>)]_vars

C23_Witness ==
    /\ rcPc = "run"
    /\ isUpdateInProgress
    /\ ~isDeleted
    /\ rcErr = "ErrInvalidSectorNumber"
    /\ numSectors > 0
    /\ numSectors < Len(file.counts)
    /\ Count(numSectors).err = "ErrInvalidSectorNumber"


---------------------------------------------------------------------------
\* The HasSector job queue of a worker: jobs are added with an estimate of
\* their time, the worker loop takes them out in batches, runs one program
\* on the host per batch and sends every job its own part of the result.

MaxJobs == 3
MaxRoot == 2
NumChannels == 2
MaxDuration == 1
NumPercentiles == 2
MaxClock == 1

\* The number of jobs batched together; 13 in the source, scaled down here so
\* that a queue of MaxJobs jobs is longer than one batch.
hasSectorBatchSize == 2

Roots == 1 .. MaxRoot

\* The lists of roots a job can ask for: one root, or two roots of which the
\* host stores the second only.
SectorLists == {<<1>>, <<MaxRoot, 1>>}

\* The values of a JobTime: one duration per percentile, in increasing order.
JobTimes ==
    {jt \in [1 .. NumPercentiles -> 0 .. MaxDuration] :
        \A k \in 1 .. (NumPercentiles - 1) : jt[k] <= jt[k + 1]}

\* JobTime.Max
JobTimeMax(jt) == jt[Len(jt)]

\* JobTime.ResolveTime: the job time with a start time.
ResolveTime(jt, start) == [start |-> start, times |-> jt]

\* The zero ResolveTime returned with an error.
NoResolveTime == [start |-> 0, times |-> <<>>]

\* The loop of jobHasSectorQueue.callNext: jobs are taken from the head of
\* the queue until the batch is full or the queue is empty.
RECURSIVE BatchLoop(_, _)
BatchLoop(jobs, queue) ==
    IF Len(jobs) >= hasSectorBatchSize \/ queue = <<>>
    THEN [jobs |-> jobs, queue |-> queue]
    ELSE BatchLoop(Append(jobs, Head(queue)), Tail(queue))

\* The program of a batch: one HasSector instruction per root, job by job.
RECURSIVE Program(_)
Program(jobs) ==
    IF jobs = <<>> THEN <<>>
    ELSE hsJobs[Head(jobs)].staticSectors \o Program(Tail(jobs))

\* The output of the host for a program: one bit per instruction.
HostOutput(program) == [k \in 1 .. Len(program) |-> program[k] \in hostRoots]

\* The last loop of managedHasSector with the slice never advanced.
RECURSIVE SliceResultsNoAdvance(_, _)
SliceResultsNoAdvance(jobs, hasSectors) ==
    IF jobs = <<>> THEN <<>>
    ELSE <<SubSeq(hasSectors, 1, Len(hsJobs[Head(jobs)].staticSectors))>>
            \o SliceResultsNoAdvance(Tail(jobs), hasSectors)

\* The last loop of managedHasSector: every job gets the next len(sectors)
\* bits.
RECURSIVE SliceResults(_, _)
SliceResults(jobs, hasSectors) ==
    IF jobs = <<>> THEN <<>>
    ELSE LET n == Len(hsJobs[Head(jobs)].staticSectors)
         IN  <<SubSeq(hasSectors, 1, n)>>
                \o SliceResults(Tail(jobs), SubSeq(hasSectors, n + 1, Len(hasSectors)))

\* managedHasSector: the program is run on the host; hostErr is the error of
\* the execution or of one of the responses.
managedHasSector(jobs, hostErr) ==
    IF hostErr # "nil"
    THEN [results |-> <<>>, err |-> hostErr]
    ELSE [results |-> SliceResults(jobs, HostOutput(Program(jobs))), err |-> "nil"]

\* The response callExecute creates for the i-th job of the batch.
BatchResponse(jobs, i, r) ==
    [job |-> jobs[i],
     chan |-> hsJobs[jobs[i]].staticResponseChan,
     staticErr |-> r.err,
     staticAvailables |-> IF r.err = "nil" THEN r.results[i] ELSE <<>>]

\* The response callDiscard creates for a job.
DiscardResponse(job) ==
    [job |-> job,
     chan |-> hsJobs[job].staticResponseChan,
     staticErr |-> "ErrJobDiscarded",
     staticAvailables |-> <<>>]

HasSectorInit ==
    /\ DownloadIdle
    /\ SelectIdle
    /\ MerkleIdle
    /\ RefCounterIdle
    /\ PoolIdle
    /\ HeapIdle
    /\ DataSourceIdle
    /\ OverdriveIdle
    /\ ReaderIdle
    /\ RenewIdle
    /\ hsClock = 0
    /\ hsJobs = <<>>
    /\ hsQueue = <<>>
    /\ hsCooldown = FALSE
    /\ hsEstimate \in JobTimes
    /\ hsAddResult = [err |-> "nil", rt |-> NoResolveTime]
    /\ hsBatch = <<>>
    /\ hsInFlight = {}
    /\ hsDelivered = {}
    /\ hostRoots = {1}
    /\ hsPc = "idle"

HasSectorTick ==
    /\ hsClock < MaxClock
    /\ hsClock' = hsClock + 1
    /\ UNCHANGED <<hsJobs, hsQueue, hsCooldown, hsEstimate, hsAddResult, hsBatch,
                   hsInFlight, hsDelivered, hostRoots, hsPc>>
    /\ UNCHANGED notHasSectorVars

\* callAddWithEstimate that enqueues whatever the estimate is.
callAddWithEstimateNoMax(sectors, chan, maxEstimate) ==
    /\ Len(hsJobs) < MaxJobs
    /\ IF hsCooldown
       THEN /\ hsJobs' = Append(hsJobs, [staticSectors |-> sectors,
                                         staticResponseChan |-> chan])
            /\ hsAddResult' = [err |-> "unable to add job to queue",
                               rt |-> NoResolveTime]
            /\ UNCHANGED hsQueue
       ELSE /\ hsJobs' = Append(hsJobs, [staticSectors |-> sectors,
                                         staticResponseChan |-> chan])
            /\ hsQueue' = Append(hsQueue, Len(hsJobs) + 1)
            /\ hsAddResult' = [err |-> "nil", rt |-> ResolveTime(hsEstimate, hsClock)]
    /\ UNCHANGED <<hsClock, hsCooldown, hsEstimate, hsBatch, hsInFlight, hsDelivered,
                   hostRoots, hsPc>>
    /\ UNCHANGED notHasSectorVars

\* callAddWithEstimate for a new job with the given roots and response
\* channel. The queue refuses a job while it is on cooldown. The start time
\* written to the job is the one the returned ResolveTime carries.
callAddWithEstimate(sectors, chan, maxEstimate) ==
    /\ Len(hsJobs) < MaxJobs
    /\ IF JobTimeMax(hsEstimate) > maxEstimate
       THEN /\ hsJobs' = Append(hsJobs, [staticSectors |-> sectors,
                                         staticResponseChan |-> chan])
            /\ hsAddResult' = [err |-> "errEstimateAboveMax", rt |-> NoResolveTime]
            /\ UNCHANGED hsQueue
       ELSE IF hsCooldown
       THEN /\ hsJobs' = Append(hsJobs, [staticSectors |-> sectors,
                                         staticResponseChan |-> chan])
            /\ hsAddResult' = [err |-> "unable to add job to queue",
                               rt |-> NoResolveTime]
            /\ UNCHANGED hsQueue
       ELSE /\ hsJobs' = Append(hsJobs, [staticSectors |-> sectors,
                                         staticResponseChan |-> chan])
            /\ hsQueue' = Append(hsQueue, Len(hsJobs) + 1)
            /\ hsAddResult' = [err |-> "nil", rt |-> ResolveTime(hsEstimate, hsClock)]
    /\ UNCHANGED <<hsClock, hsCooldown, hsEstimate, hsBatch, hsInFlight, hsDelivered,
                   hostRoots, hsPc>>
    /\ UNCHANGED notHasSectorVars

\* jobHasSectorQueue.callNext, called by the worker loop.
callNext ==
    /\ hsPc = "idle"
    /\ hsQueue # <<>>
    /\ hsBatch' = BatchLoop(<<>>, hsQueue).jobs
    /\ hsQueue' = BatchLoop(<<>>, hsQueue).queue
    /\ hsPc' = "executing"
    /\ UNCHANGED <<hsClock, hsJobs, hsCooldown, hsEstimate, hsAddResult, hsInFlight,
                   hsDelivered, hostRoots>>
    /\ UNCHANGED notHasSectorVars

\* jobHasSectorBatch.callExecute. newEstimate is the estimate after the job
\* time was added to the distribution. A failure puts the queue on cooldown
\* and discards the jobs still queued. A send that cannot be launched
\* because the renter stops is a response that is dropped.
callExecute(hostErr, newEstimate) ==
    /\ hsPc = "executing"
    /\ LET r == managedHasSector(hsBatch, hostErr)
       IN  IF r.err = "nil"
           THEN /\ hsInFlight' = hsInFlight \cup
                                    {BatchResponse(hsBatch, i, r) : i \in DOMAIN hsBatch}
                /\ hsEstimate' = newEstimate
                /\ UNCHANGED <<hsQueue, hsCooldown>>
           ELSE /\ hsInFlight' = hsInFlight
                                    \cup {BatchResponse(hsBatch, i, r) : i \in DOMAIN hsBatch}
                                    \cup {DiscardResponse(hsQueue[k]) : k \in DOMAIN hsQueue}
                /\ hsQueue' = <<>>
                /\ hsCooldown' = TRUE
                /\ UNCHANGED hsEstimate
    /\ hsPc' = "idle"
    /\ UNCHANGED <<hsClock, hsJobs, hsAddResult, hsBatch, hsDelivered, hostRoots>>
    /\ UNCHANGED notHasSectorVars

\* The goroutine of a response sends it on the channel of its job.
SendResponse(response) ==
    /\ response \in hsInFlight
    /\ hsInFlight' = hsInFlight \ {response}
    /\ hsDelivered' = hsDelivered \cup {response}
    /\ UNCHANGED <<hsClock, hsJobs, hsQueue, hsCooldown, hsEstimate, hsAddResult,
                   hsBatch, hostRoots, hsPc>>
    /\ UNCHANGED notHasSectorVars

\* The goroutine of a response ends without sending: the context of the job
\* is done or the renter stops.
DropResponse(response) ==
    /\ response \in hsInFlight
    /\ hsInFlight' = hsInFlight \ {response}
    /\ UNCHANGED <<hsClock, hsJobs, hsQueue, hsCooldown, hsEstimate, hsAddResult,
                   hsBatch, hsDelivered, hostRoots, hsPc>>
    /\ UNCHANGED notHasSectorVars

\* The cooldown of the queue ends by time.
CooldownEnds ==
    /\ hsCooldown
    /\ hsCooldown' = FALSE
    /\ UNCHANGED <<hsClock, hsJobs, hsQueue, hsEstimate, hsAddResult, hsBatch,
                   hsInFlight, hsDelivered, hostRoots, hsPc>>
    /\ UNCHANGED notHasSectorVars

HasSectorNext ==
    \/ HasSectorTick
    \/ \E sectors \in SectorLists, chan \in 1 .. NumChannels,
          maxEstimate \in 0 .. MaxDuration :
          callAddWithEstimate(sectors, chan, maxEstimate)
    \/ callNext
    \/ \E hostErr \in {"nil", "hostError"}, newEstimate \in JobTimes :
          callExecute(hostErr, newEstimate)
    \/ \E response \in hsInFlight : SendResponse(response)
    \/ \E response \in hsInFlight : DropResponse(response)
    \/ CooldownEnds

HasSectorSpec == HasSectorInit /\ [][HasSectorNext]_vars


\* C24: callNext takes the jobs out of the queue in the order they were
\* added, at most hasSectorBatchSize of them, and every response of a batch
\* that succeeded goes to the channel of its own job with exactly one bit
\* per root the job asked for, in the order of its roots: the bit tells
\* whether the host stores that root.
C24_BatchKeepsJobResults ==
    /\ [](\A r \in hsInFlight \cup hsDelivered :
             /\ r.chan = hsJobs[r.job].staticResponseChan
             /\ r.staticErr = "nil"
                   => r.staticAvailables
                         = [k \in 1 .. Len(hsJobs[r.job].staticSectors) |->
                               hsJobs[r.job].staticSectors[k] \in hostRoots])
    /\ [][callNext
             => LET n == IF Len(hsQueue) < hasSectorBatchSize
                         THEN Len(hsQueue) ELSE hasSectorBatchSize
                IN  /\ hsBatch' = SubSeq(hsQueue, 1, n)
                    /\ hsQueue' = SubSeq(hsQueue, n + 1, Len(hsQueue))]_vars

C24_Witness ==
    /\ hsPc = "idle"
    /\ Len(hsBatch) = hasSectorBatchSize
    /\ hsQueue # <<>>
    /\ hsJobs[hsBatch[1]].staticSectors = <<MaxRoot, 1>>
    /\ hsJobs[hsBatch[2]].staticSectors = <<1>>
    /\ hsJobs[hsBatch[1]].staticResponseChan # hsJobs[hsBatch[2]].staticResponseChan
    /\ \A i \in 1 .. 2 :
          \E r \in hsDelivered :
             /\ r.job = hsBatch[i]
             /\ r.staticErr = "nil"
             /\ Len(r.staticAvailables) = Len(hsJobs[hsBatch[i]].staticSectors)

\* C25 as stated: callAddWithEstimate returns errEstimateAboveMax and
\* enqueues nothing when the largest percentile of the estimate is above
\* maxEstimate; otherwise the job is enqueued and the ResolveTime returned
\* holds the time of the call and the percentiles of the estimate.
C25_AddWithEstimateAlwaysEnqueues ==
    [][\A sectors \in SectorLists, chan \in 1 .. NumChannels,
          maxEstimate \in 0 .. MaxDuration :
          callAddWithEstimate(sectors, chan, maxEstimate)
             => IF JobTimeMax(hsEstimate) > maxEstimate
                THEN /\ hsAddResult'.err = "errEstimateAboveMax"
                     /\ hsQueue' = hsQueue
                ELSE /\ hsQueue' = Append(hsQueue, Len(hsJobs'))
                     /\ hsAddResult' = [err |-> "nil",
                                        rt |-> [start |-> hsClock, times |-> hsEstimate]]]_vars

\* C25: callAddWithEstimate returns errEstimateAboveMax and enqueues nothing
\* when the largest percentile of the estimate is above maxEstimate;
\* otherwise, when the queue refuses the job, it returns an error and
\* enqueues nothing; otherwise the job is enqueued last and the ResolveTime
\* returned holds the time of the call and the percentiles of the estimate.
C25_AddWithEstimate ==
    [][\A sectors \in SectorLists, chan \in 1 .. NumChannels,
          maxEstimate \in 0 .. MaxDuration :
          callAddWithEstimate(sectors, chan, maxEstimate)
             => IF JobTimeMax(hsEstimate) > maxEstimate
                THEN /\ hsAddResult'.err = "errEstimateAboveMax"
                     /\ hsQueue' = hsQueue
                ELSE IF hsCooldown
                THEN /\ hsAddResult'.err = "unable to add job to queue"
                     /\ hsQueue' = hsQueue
                ELSE /\ hsQueue' = Append(hsQueue, Len(hsJobs'))
                     /\ hsAddResult' = [err |-> "nil",
                                        rt |-> [start |-> hsClock, times |-> hsEstimate]]]_vars

C25_Witness ==
    /\ hsAddResult.err = "nil"
    /\ hsAddResult.rt.start = MaxClock
    /\ hsAddResult.rt.times = hsEstimate
    /\ hsEstimate[1] < JobTimeMax(hsEstimate)
    /\ hsQueue # <<>>
    /\ hsQueue[Len(hsQueue)] = Len(hsJobs)
    /\ Len(hsJobs) > 1


---------------------------------------------------------------------------
\* The worker pool: callUpdate makes the workers of the pool match the
\* contracts of the contractor. Several threads of the renter call it.

NumHosts == 2
NumCallers == 2
MaxWorkers == 4

Hosts == 1 .. NumHosts
Callers == 1 .. NumCallers

\* The workers of a map.
Range(f) == {f[x] : x \in DOMAIN f}

\* The hosts of a set in increasing order.
RECURSIVE SetToSeq(_)
SetToSeq(S) ==
    IF S = {} THEN <<>>
    ELSE LET x == CHOOSE y \in S : \A z \in S : y <= z
         IN  <<x>> \o SetToSeq(S \ {x})

\* The position of a host in a sequence of hosts.
IndexOf(seq, x) == CHOOSE i \in DOMAIN seq : seq[i] = x

PoolInit ==
    /\ DownloadIdle
    /\ SelectIdle
    /\ MerkleIdle
    /\ RefCounterIdle
    /\ HasSectorIdle
    /\ HeapIdle
    /\ DataSourceIdle
    /\ OverdriveIdle
    /\ ReaderIdle
    /\ RenewIdle
    /\ contracts \in SUBSET Hosts
    /\ workers = <<>>
    /\ workerHost = <<>>
    /\ loopSpawned = {}
    /\ killed = {}
    /\ contractMap = [c \in Callers |-> {}]
    /\ poolPc = [c \in Callers |-> "idle"]
    /\ stopped = FALSE

\* The contractor forms, renews or drops contracts.
ContractsChange(newContracts) ==
    /\ newContracts # contracts
    /\ contracts' = newContracts
    /\ UNCHANGED <<workers, workerHost, loopSpawned, killed, contractMap, poolPc, stopped>>
    /\ UNCHANGED notPoolVars

\* callUpdate, before the pool is locked: the contracts are fetched from the
\* contractor and put into a map by host key.
callUpdateFetch(c) ==
    /\ poolPc[c] = "idle"
    /\ contractMap' = [contractMap EXCEPT ![c] = contracts]
    /\ poolPc' = [poolPc EXCEPT ![c] = "fetched"]
    /\ UNCHANGED <<contracts, workers, workerHost, loopSpawned, killed, stopped>>
    /\ UNCHANGED notPoolVars

\* callUpdate that removes no worker.
callUpdateNoRemove(c, failed) ==
    /\ poolPc[c] = "fetched"
    /\ failed \subseteq (contractMap[c] \ DOMAIN workers)
    /\ LET new == SetToSeq((contractMap[c] \ DOMAIN workers) \ failed)
           newId(h) == Len(workerHost) + IndexOf(new, h)
           added == [h \in DOMAIN workers \cup Range(new) |->
                        IF h \in DOMAIN workers THEN workers[h] ELSE newId(h)]
       IN  /\ Len(workerHost) + Len(new) <= MaxWorkers
           /\ workerHost' = workerHost \o new
           /\ loopSpawned' = IF stopped THEN loopSpawned
                             ELSE loopSpawned \cup {newId(h) : h \in Range(new)}
           /\ workers' = added
           /\ UNCHANGED killed
    /\ poolPc' = [poolPc EXCEPT ![c] = "idle"]
    /\ UNCHANGED <<contracts, contractMap, stopped>>
    /\ UNCHANGED notPoolVars

\* callUpdate with the pool locked. failed are the hosts for which newWorker
\* returns an error. The loop of a new worker runs unless the thread group
\* is stopped; when it is stopped no worker is removed.
callUpdate(c, failed) ==
    /\ poolPc[c] = "fetched"
    /\ failed \subseteq (contractMap[c] \ DOMAIN workers)
    /\ LET new == SetToSeq((contractMap[c] \ DOMAIN workers) \ failed)
           newId(h) == Len(workerHost) + IndexOf(new, h)
           added == [h \in DOMAIN workers \cup Range(new) |->
                        IF h \in DOMAIN workers THEN workers[h] ELSE newId(h)]
           kept == [h \in DOMAIN added \cap contractMap[c] |-> added[h]]
       IN  /\ Len(workerHost) + Len(new) <= MaxWorkers
           /\ workerHost' = workerHost \o new
           /\ loopSpawned' = IF stopped THEN loopSpawned
                             ELSE loopSpawned \cup {newId(h) : h \in Range(new)}
           /\ IF stopped
              THEN /\ workers' = added
                   /\ UNCHANGED killed
              ELSE /\ workers' = kept
                   /\ killed' = killed \cup {added[h] : h \in DOMAIN added \ contractMap[c]}
    /\ poolPc' = [poolPc EXCEPT ![c] = "idle"]
    /\ UNCHANGED <<contracts, contractMap, stopped>>
    /\ UNCHANGED notPoolVars

\* The thread group stops: the function newWorkerPool registered closes the
\* killChan of every worker of the pool.
PoolStop ==
    /\ ~stopped
    /\ stopped' = TRUE
    /\ killed' = killed \cup Range(workers)
    /\ UNCHANGED <<contracts, workers, workerHost, loopSpawned, contractMap, poolPc>>
    /\ UNCHANGED notPoolVars

PoolNext ==
    \/ \E newContracts \in SUBSET Hosts : ContractsChange(newContracts)
    \/ \E c \in Callers : callUpdateFetch(c)
    \/ \E c \in Callers, failed \in SUBSET Hosts : callUpdate(c, failed)
    \/ PoolStop

PoolSpec == PoolInit /\ [][PoolNext]_vars

\* C26: when callUpdate completes with the thread group not stopped and
\* every newWorker succeeding, the pool holds exactly one worker per host key
\* of the contract set the call fetched, no two hosts sharing a worker: each
\* host that had no worker got a new one whose loop was started and whose
\* killChan is open, each worker whose host is not in the set left the map
\* and its killChan is closed, and every other worker stayed as it was.
C26_PoolMatchesContracts ==
    [][\A c \in Callers :
          (callUpdate(c, {}) /\ ~stopped)
             => (/\ DOMAIN workers' = contractMap[c]
                 /\ \A h1, h2 \in DOMAIN workers' :
                       h1 # h2 => workers'[h1] # workers'[h2]
                 /\ \A h \in contractMap[c] \ DOMAIN workers :
                       /\ workers'[h] \notin DOMAIN workerHost
                       /\ workerHost'[workers'[h]] = h
                       /\ workers'[h] \in loopSpawned'
                       /\ workers'[h] \notin killed'
                 /\ \A h \in DOMAIN workers \ contractMap[c] :
                       workers[h] \in killed'
                 /\ \A h \in DOMAIN workers \cap contractMap[c] :
                       /\ workers'[h] = workers[h]
                       /\ (workers[h] \in killed') <=> (workers[h] \in killed))]_vars

C26_Witness ==
    /\ ~stopped
    /\ \A c \in Callers : poolPc[c] = "idle"
    /\ DOMAIN workers = contracts
    /\ workers # <<>>
    /\ Range(workers) \subseteq loopSpawned
    /\ Range(workers) \cap killed = {}
    /\ killed # {}
    /\ Len(workerHost) >= 3

-----------------------------------------------------------------------------
\* The download heap: modules/renter/downloadheap.go.

\* The number of chunks added in one behaviour.
MaxChunks == 3
\* The greatest priority, start time and chunk index of a chunk.
MaxPriority == 1
MaxStartTime == 1
MaxChunkIndex == 1
\* The memory of the memory manager, in chunks.
MemoryTotal == 1
\* managedAcquireMemoryForDownloadChunk: the memory one chunk asks for.
memoryRequired == 1

\* unfinishedDownloadChunk: the fields the heap reads.  id tells the chunks
\* apart; every chunk is the only chunk of its download.
Chunks ==
    [id : 1 .. MaxChunks,
     staticNeedsMemory : BOOLEAN,
     staticPriority : 0 .. MaxPriority,
     staticStartTime : 0 .. MaxStartTime,
     staticChunkIndex : 0 .. MaxChunkIndex]

\* downloadChunkHeap.Less, on two chunks.
Less(a, b) ==
    IF a.staticPriority # b.staticPriority
    THEN a.staticPriority > b.staticPriority
    ELSE IF a.staticStartTime # b.staticStartTime
         THEN a.staticStartTime < b.staticStartTime
         ELSE a.staticChunkIndex < b.staticChunkIndex

\* downloadChunkHeap.Swap; i and j count from 0 as in the source.
HeapSwap(h, i, j) ==
    [h EXCEPT ![i + 1] = h[j + 1], ![j + 1] = h[i + 1]]

\* container/heap down(h, i0, n).
RECURSIVE down(_, _, _)
down(h, i, n) ==
    LET j1 == 2 * i + 1
        j2 == j1 + 1
        j == IF j2 < n /\ Less(h[j2 + 1], h[j1 + 1]) THEN j2 ELSE j1
    IN  IF j1 >= n THEN h
        ELSE IF ~Less(h[j + 1], h[i + 1]) THEN h
        ELSE down(HeapSwap(h, i, j), j, n)

\* container/heap Pop(h): swap the first and the last, sift the new first
\* down, and take the last off with downloadChunkHeap.Pop.
heapPop(h) ==
    LET n == Len(h) - 1
        sifted == down(HeapSwap(h, 0, n), 0, n)
    IN  [x |-> sifted[n + 1], heap |-> SubSeq(sifted, 1, n)]

\* managedNextDownloadChunk: pop until a chunk of a download that is not
\* complete comes up; found is FALSE for the nil result.
RECURSIVE managedNextDownloadChunk(_, _)
managedNextDownloadChunk(h, complete) ==
    IF Len(h) <= 0
    THEN [found |-> FALSE, chunk |-> <<>>, heap |-> h]
    ELSE LET popped == heapPop(h)
         IN  IF popped.x.id \notin complete
             THEN [found |-> TRUE, chunk |-> popped.x, heap |-> popped.heap]
             ELSE managedNextDownloadChunk(popped.heap, complete)

HeapInit ==
    /\ DownloadIdle
    /\ SelectIdle
    /\ MerkleIdle
    /\ RefCounterIdle
    /\ HasSectorIdle
    /\ PoolIdle
    /\ DataSourceIdle
    /\ OverdriveIdle
    /\ ReaderIdle
    /\ RenewIdle
    /\ downloadHeap = <<>>
    /\ chunksAdded = 0
    /\ distributed = {}
    /\ completeDownloads = {}
    /\ memoryAvailable = MemoryTotal
    /\ memoryHeld = {}
    /\ nextChunk = <<>>
    /\ loopPc = "idle"

\* managedAddChunkToDownloadHeap without the test of staticNeedsMemory.
managedAddChunkToDownloadHeapAlwaysPush(udc) ==
    /\ chunksAdded < MaxChunks
    /\ udc.id = chunksAdded + 1
    /\ chunksAdded' = chunksAdded + 1
    /\ downloadHeap' = Append(downloadHeap, udc)
    /\ UNCHANGED <<distributed, completeDownloads, memoryAvailable, memoryHeld,
                   nextChunk, loopPc>>
    /\ UNCHANGED notHeapVars

\* managedAddChunkToDownloadHeap: a chunk that needs no memory goes to the
\* workers in the caller's thread; any other chunk is appended to the slice
\* with downloadChunkHeap.Push.
managedAddChunkToDownloadHeap(udc) ==
    /\ chunksAdded < MaxChunks
    /\ udc.id = chunksAdded + 1
    /\ chunksAdded' = chunksAdded + 1
    /\ IF ~udc.staticNeedsMemory
       THEN /\ distributed' = distributed \cup {udc}
            /\ UNCHANGED downloadHeap
       ELSE /\ downloadHeap' = Append(downloadHeap, udc)
            /\ UNCHANGED distributed
    /\ UNCHANGED <<completeDownloads, memoryAvailable, memoryHeld, nextChunk,
                   loopPc>>
    /\ UNCHANGED notHeapVars

\* threadedDownloadLoop: take the next chunk; with none the loop waits for
\* more work, which leaves it where it is.
LoopNextChunk ==
    /\ loopPc = "idle"
    /\ downloadHeap # <<>>
    /\ LET next == managedNextDownloadChunk(downloadHeap, completeDownloads)
       IN  /\ downloadHeap' = next.heap
           /\ nextChunk' = next.chunk
           /\ loopPc' = IF next.found THEN "acquiring" ELSE "idle"
    /\ UNCHANGED <<chunksAdded, distributed, completeDownloads,
                   memoryAvailable, memoryHeld>>
    /\ UNCHANGED notHeapVars

\* threadedDownloadLoop, once memoryManager.Request has returned true:
\* the chunk is loaded from disk, which returns the memory and completes
\* the download, or it is distributed to the workers.
LoopAcquireMemory(fromDisk) ==
    /\ loopPc = "acquiring"
    /\ memoryAvailable >= memoryRequired
    /\ IF fromDisk
       THEN /\ completeDownloads' = completeDownloads \cup {nextChunk.id}
            /\ UNCHANGED <<distributed, memoryAvailable, memoryHeld>>
       ELSE /\ distributed' = distributed \cup {nextChunk}
            /\ memoryAvailable' = memoryAvailable - memoryRequired
            /\ memoryHeld' = memoryHeld \cup {nextChunk.id}
            /\ UNCHANGED completeDownloads
    /\ nextChunk' = <<>>
    /\ loopPc' = "idle"
    /\ UNCHANGED <<downloadHeap, chunksAdded>>
    /\ UNCHANGED notHeapVars

\* The download of a chunk completes (all its data arrived, it failed or it
\* was cancelled); the chunk returns the memory it holds.
DownloadCompletes(id) ==
    /\ id \in 1 .. chunksAdded
    /\ id \notin completeDownloads
    /\ completeDownloads' = completeDownloads \cup {id}
    /\ IF id \in memoryHeld
       THEN /\ memoryHeld' = memoryHeld \ {id}
            /\ memoryAvailable' = memoryAvailable + memoryRequired
       ELSE UNCHANGED <<memoryHeld, memoryAvailable>>
    /\ UNCHANGED <<downloadHeap, chunksAdded, distributed, nextChunk, loopPc>>
    /\ UNCHANGED notHeapVars

\* threadedDownloadLoop returns when the renter shuts down, while it waits
\* for memory or for more work.
LoopStops ==
    /\ loopPc \in {"idle", "acquiring"}
    /\ loopPc' = "stopped"
    /\ UNCHANGED <<downloadHeap, chunksAdded, distributed, completeDownloads,
                   memoryAvailable, memoryHeld, nextChunk>>
    /\ UNCHANGED notHeapVars

HeapNext ==
    \/ \E udc \in Chunks : managedAddChunkToDownloadHeap(udc)
    \/ LoopNextChunk
    \/ \E fromDisk \in BOOLEAN : LoopAcquireMemory(fromDisk)
    \/ \E id \in 1 .. MaxChunks : DownloadCompletes(id)
    \/ LoopStops

HeapSpec == HeapInit /\ [][HeapNext]_vars

\* C27: a chunk that declares no memory need is never on the download heap
\* nor in the hands of the download loop: the step of
\* managedAddChunkToDownloadHeap that adds it hands it to the workers and
\* leaves the heap alone, whatever the loop is doing, so it never waits for
\* the loop or for memory.
C27_NoMemoryChunkSkipsHeap ==
    /\ [](/\ \A i \in 1 .. Len(downloadHeap) :
                downloadHeap[i].staticNeedsMemory
          /\ nextChunk # <<>> => nextChunk.staticNeedsMemory)
    /\ [][\A udc \in Chunks :
            (managedAddChunkToDownloadHeap(udc) /\ ~udc.staticNeedsMemory)
                => (/\ udc \in distributed'
                    /\ downloadHeap' = downloadHeap
                    /\ memoryAvailable' = memoryAvailable)]_vars

\* A chunk without memory need was handed to the workers after the chunk
\* the loop holds was added, while the loop is blocked on memory.
C27_Witness ==
    /\ loopPc = "acquiring"
    /\ memoryAvailable < memoryRequired
    /\ \E c \in distributed :
          /\ ~c.staticNeedsMemory
          /\ c.id > nextChunk.id
          /\ c.id \notin completeDownloads

-----------------------------------------------------------------------------
\* The stream data source: modules/renter/skyfiledatasource.go.

\* The greatest length of the first chunk, number of fanout chunks and
\* chunk size (FanoutDataPieces * SectorSize), in bytes.
MaxFirstChunk == 2
MaxFanoutChunks == 2
MaxChunkSize == 2
\* The greatest len(p) and off of a ReadAt.
MaxReadLen == 3
MaxReadOff == 4
\* The number of workers in the worker pool.
PoolSize == 2

\* A byte of a chunk that lies past the end of the file.
Padding == 0 - 1

Min(a, b) == IF a < b THEN a ELSE b

\* The bytes lo, lo + 1, .. of length len; the byte at offset k of the file
\* is written k, so that a wrong byte shows.
Bytes(lo, len) == [i \in 1 .. len |-> lo + i - 1]

\* A skylinkDataSource whose first chunk holds the first f bytes of the file
\* and whose k fanout chunks of cs bytes hold the l bytes after them.
MakeSds(f, k, cs, l) ==
    [staticFirstChunk |-> Bytes(0, f),
     staticChunkFetchers |->
        [i \in 1 .. k |->
            [j \in 1 .. cs |->
                IF (i - 1) * cs + j <= l THEN f + (i - 1) * cs + j - 1
                ELSE Padding]],
     chunkSize |-> cs,
     Filesize |-> f + l]

\* The data sources skylinkDataSource can return: without fanout all of
\* the file is in the first chunk, and the last fanout chunk is not empty.
SdsLayouts ==
    {MakeSds(t[1], t[2], t[3], t[4]) :
        t \in {u \in (0 .. MaxFirstChunk) \X (0 .. MaxFanoutChunks)
                        \X (0 .. MaxChunkSize)
                        \X (0 .. MaxFanoutChunks * MaxChunkSize) :
                  /\ u[2] = 0 => u[4] = 0
                  /\ u[2] > 0 => /\ u[3] >= 1
                                 /\ (u[2] - 1) * u[3] < u[4]
                                 /\ u[4] <= u[2] * u[3]}}

\* newPCWSByRoots: building a chunk worker set submits a HasSector job to
\* every worker of the pool.
newPCWSByRoots(probes) == probes + PoolSize

\* errors.AddContext: nil stays nil.
AddContext(err, context) == IF err = "nil" THEN "nil" ELSE context

\* ReadAt, the loop over the chunk fetchers: n bytes are in p, off is the
\* offset behind the first chunk; the download of chunk bad fails as kind
\* says.  An index past the fetchers and a chunk size of zero panic.
RECURSIVE ReadAtLoop(_, _, _, _, _, _, _, _)
ReadAtLoop(s, plen, n, off, data, downloads, bad, kind) ==
    IF ~(n < plen /\ off < s.Filesize)
    THEN [n |-> n, data |-> data, err |-> "nil", downloads |-> downloads]
    ELSE IF s.chunkSize = 0
    THEN [n |-> n, data |-> data, err |-> "panic: integer divide by zero",
          downloads |-> downloads]
    ELSE LET chunkIndex == off \div s.chunkSize
             offsetInChunk == off % s.chunkSize
             remainingBytes == plen - n
             remainingInChunk == s.chunkSize - offsetInChunk
             downloadSize == IF remainingInChunk > remainingBytes
                             THEN remainingBytes ELSE remainingInChunk
         IN  IF chunkIndex >= Len(s.staticChunkFetchers)
             THEN [n |-> n, data |-> data,
                   err |-> "panic: index out of range",
                   downloads |-> downloads]
             ELSE IF chunkIndex = bad /\ kind = "start"
             THEN [n |-> n, data |-> data,
                   err |-> "unable to start download",
                   downloads |-> downloads]
             ELSE IF chunkIndex = bad
             THEN [n |-> n, data |-> data,
                   err |-> "base sector download did not succeed",
                   downloads |-> downloads + 1]
             ELSE ReadAtLoop(s, plen, n + downloadSize, off + downloadSize,
                     data \o SubSeq(s.staticChunkFetchers[chunkIndex + 1],
                                    offsetInChunk + 1,
                                    offsetInChunk + downloadSize),
                     downloads + 1, bad, kind)

\* skylinkDataSource.ReadAt with len(p) = plen.
ReadAt(s, plen, off, bad, kind) ==
    LET firstLen == Len(s.staticFirstChunk)
        n == IF off < firstLen THEN Min(plen, firstLen - off) ELSE 0
        data == IF off < firstLen
                THEN SubSeq(s.staticFirstChunk, off + 1, off + n)
                ELSE <<>>
    IN  ReadAtLoop(s, plen, n, off + n - firstLen, data, 0, bad, kind)

DataSourceInit ==
    /\ DownloadIdle
    /\ SelectIdle
    /\ MerkleIdle
    /\ RefCounterIdle
    /\ HasSectorIdle
    /\ PoolIdle
    /\ HeapIdle
    /\ OverdriveIdle
    /\ ReaderIdle
    /\ RenewIdle
    /\ dsPc = "idle"
    /\ dsWorkerSets = 0
    /\ dsProbes = 0
    /\ dsDownloads = 0
    /\ dsCancelled = FALSE
    /\ dsErr = "nil"
    /\ sds = <<>>
    /\ readResult = <<>>

\* skylinkDataSource returns with an error: the deferred function cancels
\* the context.
dsReturnError(err) ==
    /\ dsPc' = "returned"
    /\ dsErr' = err
    /\ dsCancelled' = TRUE
    /\ sds' = <<>>

\* skylinkDataSource up to the wait for the base sector: the worker set of
\* the base root is built, which submits a HasSector job to every worker of
\* the pool, then the link is parsed, then the download is started.
skylinkDataSourceStart(linkValid, pcwsErr, downloadErr) ==
    /\ dsPc = "idle"
    /\ IF pcwsErr # "nil"
       THEN /\ dsReturnError(AddContext(pcwsErr,
                    "unable to create the worker set for this skylink"))
            /\ UNCHANGED <<dsWorkerSets, dsProbes, dsDownloads>>
       ELSE /\ dsWorkerSets' = dsWorkerSets + 1
            /\ dsProbes' = newPCWSByRoots(dsProbes)
            /\ IF ~linkValid
               THEN /\ dsReturnError(AddContext("ErrSkylinkCorruptedFetchSize",
                                                "unable to parse skylink"))
                    /\ UNCHANGED dsDownloads
               ELSE IF downloadErr # "nil"
               THEN /\ dsReturnError(AddContext(downloadErr,
                                                "unable to start download"))
                    /\ UNCHANGED dsDownloads
               ELSE /\ dsDownloads' = dsDownloads + 1
                    /\ dsPc' = "download"
                    /\ UNCHANGED <<dsErr, dsCancelled, sds>>
    /\ UNCHANGED readResult
    /\ UNCHANGED notDataSourceVars

\* skylinkDataSource from the response of the base sector download on:
\* respErr is resp.err, parseErr the step of decoding the base sector that
\* fails, layout what the base sector decodes to, fanoutErr the step that
\* fails for fanout chunk failAt.
skylinkDataSourceFinish(respErr, parseErr, layout, fanoutErr, failAt) ==
    /\ dsPc = "download"
    /\ IF respErr # "nil"
       THEN /\ dsReturnError(AddContext("nil",
                                 "base sector download did not succeed"))
            /\ UNCHANGED <<dsWorkerSets, dsProbes>>
       ELSE IF parseErr # "nil"
       THEN /\ dsReturnError(parseErr)
            /\ UNCHANGED <<dsWorkerSets, dsProbes>>
       ELSE IF fanoutErr # "nil" /\ failAt < Len(layout.staticChunkFetchers)
       THEN /\ dsReturnError(fanoutErr)
            /\ dsWorkerSets' = dsWorkerSets + failAt
            /\ dsProbes' = dsProbes + failAt * PoolSize
       ELSE /\ dsWorkerSets' = dsWorkerSets + Len(layout.staticChunkFetchers)
            /\ dsProbes' =
                  dsProbes + Len(layout.staticChunkFetchers) * PoolSize
            /\ dsPc' = "returned"
            /\ dsErr' = "nil"
            /\ sds' = layout
            /\ UNCHANGED dsCancelled
    /\ UNCHANGED <<dsDownloads, readResult>>
    /\ UNCHANGED notDataSourceVars

\* The errors of decoding the base sector, lines 197-219.
ParseErrors ==
    {"nil",
     "download did not fetch enough data, layout cannot be decoded",
     "unable to decrypt skyfile base sector",
     "error parsing skyfile metadata",
     "error parsing skyfile fanout"}

\* The errors of building the fetcher of one fanout chunk, lines 221-235.
FanoutErrors ==
    {"nil",
     "unable to derive encryption key",
     "unable to derive erasure coding settings for fanout",
     "unable to create worker set for all chunk indices"}

\* A call of ReadAt on the data source that was returned.
ReadAtCall(plen, off, bad, kind) ==
    /\ dsPc = "returned"
    /\ sds # <<>>
    /\ readResult' = ReadAt(sds, plen, off, bad, kind)
    /\ UNCHANGED <<dsPc, dsWorkerSets, dsProbes, dsDownloads, dsCancelled,
                   dsErr, sds>>
    /\ UNCHANGED notDataSourceVars

\* SilentClose: the first call cancels the context.
SilentClose ==
    /\ dsPc = "returned"
    /\ sds # <<>>
    /\ ~dsCancelled
    /\ dsCancelled' = TRUE
    /\ UNCHANGED <<dsPc, dsWorkerSets, dsProbes, dsDownloads, dsErr, sds,
                   readResult>>
    /\ UNCHANGED notDataSourceVars

DataSourceNext ==
    \/ \E linkValid \in BOOLEAN, pcwsErr, downloadErr \in {"nil", "err"} :
          skylinkDataSourceStart(linkValid, pcwsErr, downloadErr)
    \/ \E respErr \in {"nil", "err"}, parseErr \in ParseErrors,
          layout \in SdsLayouts, fanoutErr \in FanoutErrors,
          failAt \in 0 .. MaxFanoutChunks - 1 :
          skylinkDataSourceFinish(respErr, parseErr, layout, fanoutErr, failAt)
    \/ \E plen \in 0 .. MaxReadLen, off \in 0 .. MaxReadOff,
          bad \in (0 - 1) .. (MaxFanoutChunks - 1), kind \in {"start", "resp"} :
          ReadAtCall(plen, off, bad, kind)
    \/ SilentClose

DataSourceSpec == DataSourceInit /\ [][DataSourceNext]_vars

\* C28: when no download fails, ReadAt(p, off) returns without error the
\* bytes of the file from off on, len(p) of them or as many as the file
\* has from off on, whichever is less.
C28_ReadAtDeliversFileBytes ==
    [][\A plen \in 0 .. MaxReadLen, off \in 0 .. MaxReadOff :
          ReadAtCall(plen, off, 0 - 1, "start")
             => LET want == IF off >= sds.Filesize THEN 0
                            ELSE Min(plen, sds.Filesize - off)
                IN  /\ readResult'.err = "nil"
                    /\ readResult'.n = want
                    /\ readResult'.data = Bytes(off, want)]_vars

\* C29: for a link whose bitfield does not decode to an offset and a fetch
\* size, skylinkDataSource returns the error of parsing the link with no
\* chunk worker set built, no HasSector job submitted and no download
\* issued.
C29_MalformedLinkNoTraffic ==
    [][\A pcwsErr, downloadErr \in {"nil", "err"} :
          skylinkDataSourceStart(FALSE, pcwsErr, downloadErr)
             => /\ dsErr' = "unable to parse skylink"
                /\ dsWorkerSets' = 0
                /\ dsProbes' = 0
                /\ dsDownloads' = 0]_vars

\* C30: a round of launchWorker whose job add fails leaves the chosen
\* worker's pieceDownload of the chosen piece marked launched and failed,
\* and the next selection on the same estimates does not return that
\* worker for that piece again.
C30_FailedAddMarksWorker ==
    [][\A q \in QueueEstimates, o \in Perms(DOMAIN unresolvedWorkers) :
          (LaunchWorker(q, o, FALSE) /\ pc' = "launch")
             => LET r == Selection(q, o)
                    again == findBestWorker(unresolvedWorkers', o,
                                 availablePieces', now', q, ec.minPieces)
                IN  /\ \A k \in DOMAIN availablePieces'[r.pieceIndex] :
                          availablePieces'[r.pieceIndex][k].worker = r.worker
                             => /\ availablePieces'[r.pieceIndex][k].launched
                                /\ availablePieces'[r.pieceIndex][k].failed
                    /\ ~(again.worker = r.worker
                         /\ again.pieceIndex = r.pieceIndex)]_vars

\* C31: whenever findBestWorker returns a worker, the index returned with
\* it is the index of a piece of the chunk, and the worker is listed in
\* availablePieces for that piece.
C31_BestWorkerPieceIndex ==
    (pc = "selected" /\ bestWorker.worker # NoWorker)
        => /\ bestWorker.pieceIndex \in Pieces
           /\ \E pd \in RangeOf(availablePieces[bestWorker.pieceIndex]) :
                 pd.worker = bestWorker.worker

\* C32: every job read response carries the root of a piece, and handling
\* it changes only the pieceDownloads of the responding worker in the piece
\* with that root: they are marked completed and the data of the piece is
\* stored on success, they are marked failed and no data is stored on
\* failure; every other piece and every other pieceDownload stays as it was.
C32_ResponseIntegratedInPlace ==
    /\ [](\A k \in DOMAIN workerResponseChan :
            \E p \in Pieces : staticPieceRoots[p] = workerResponseChan[k].sectorRoot)
    /\ [][CollectResponse =>
            LET jrr == Head(workerResponseChan)
            IN  \A p \in Pieces :
                  staticPieceRoots[p] = jrr.sectorRoot =>
                    /\ \A i \in Pieces \ {p} :
                          /\ availablePieces'[i] = availablePieces[i]
                          /\ dataPieces'[i] = dataPieces[i]
                    /\ dataPieces'[p] = IF jrr.err THEN dataPieces[p] ELSE TRUE
                    /\ DOMAIN availablePieces'[p] = DOMAIN availablePieces[p]
                    /\ \A j \in DOMAIN availablePieces[p] :
                          availablePieces'[p][j] =
                             IF availablePieces[p][j].worker # jrr.worker
                             THEN availablePieces[p][j]
                             ELSE IF jrr.err
                             THEN [availablePieces[p][j] EXCEPT !.failed = TRUE]
                             ELSE [availablePieces[p][j] EXCEPT !.completed = TRUE]]_vars

\* A response with data was integrated into a piece other than the first
\* that two workers hold: one pieceDownload is completed, the other is not.
C32_Witness ==
    \E p \in Pieces \ {0} : \E a, b \in DOMAIN availablePieces[p] :
        /\ dataPieces[p]
        /\ availablePieces[p][a].completed
        /\ ~availablePieces[p][b].completed
        /\ ~availablePieces[p][b].failed

-----------------------------------------------------------------------------
\* needsOverdrive on the download chunks it can be called on: finished()
\* has just reported that the download is neither complete nor failed.

\* The greatest expected completion time of a launched read.
MaxCompletionTime == 2
\* The greatest number of workers listed for one piece.
MaxPieceWorkers == 2

\* The pieceDownloads of worker w: not launched, or launched and expected
\* at e, and then outstanding, completed or failed.
PieceDownloadsOf(w) ==
    {newPieceDownload(w)}
    \cup {pd \in [worker : {w}, launched : {TRUE}, completed : BOOLEAN,
                  failed : BOOLEAN,
                  expectedCompletionTime : 0 .. MaxCompletionTime] :
             ~(pd.completed /\ pd.failed)}

\* The worker lists of one piece: the first k workers, each in one of its
\* states.
PieceLists ==
    UNION {{s \in [1 .. k -> UNION {PieceDownloadsOf(w) : w \in Workers}] :
                \A j \in 1 .. k : s[j].worker = j} :
           k \in 0 .. MaxPieceWorkers}

OverdriveInit ==
    /\ now \in 0 .. MaxTime
    /\ ctxDone = FALSE
    /\ ec = [minPieces |-> MinPieces, segmentSize |-> SegmentSize, partials |-> TRUE]
    /\ \E r \in RequestSet : chunkOffset = r[1] /\ chunkLength = r[2]
    /\ pieceOffset = getPieceOffsetAndLen(ec, chunkOffset, chunkLength)[1]
    /\ pieceLength = getPieceOffsetAndLen(ec, chunkOffset, chunkLength)[2]
    /\ unresolvedWorkers = <<>>
    /\ resolvedWorkers = <<>>
    /\ workersConsidered = Workers
    /\ availablePieces \in [Pieces -> PieceLists]
    /\ finished(availablePieces, unresolvedWorkers, ec.minPieces) = "wait"
    /\ dataPieces = [i \in Pieces |-> \E pd \in RangeOf(availablePieces[i]) : pd.completed]
    /\ jobQueue = [w \in Workers |-> <<>>]
    /\ workerResponseChan = <<>>
    /\ downloadResponseChan = <<>>
    /\ launchCount = 0
    /\ pc = "overdrive"
    /\ SelectIdle
    /\ MerkleIdle
    /\ RefCounterIdle
    /\ HasSectorIdle
    /\ PoolIdle
    /\ HeapIdle
    /\ DataSourceIdle
    /\ ReaderIdle
    /\ RenewIdle
    /\ overdriveResult = <<>>

\* pdc.needsOverdrive().
NeedsOverdrive ==
    /\ pc = "overdrive"
    /\ overdriveResult = <<>>
    /\ overdriveResult' = needsOverdrive(availablePieces, now, ec.minPieces)
    /\ UNCHANGED notOverdriveVars

OverdriveNext == NeedsOverdrive

OverdriveSpec == OverdriveInit /\ [][OverdriveNext]_vars

\* The reads that are launched, not failed and not completed.
OutstandingReads ==
    {pd \in AllDownloads : pd.launched /\ ~pd.failed /\ ~pd.completed}

\* C33: needsOverdrive returns (0, true) when fewer than data_pieces pieces
\* have a launched worker that has not failed, or when the latest expected
\* completion time of the launched, not failed, not completed reads is not
\* in the future; otherwise it returns that time's distance from now plus
\* the grace period, and false.
C33_NeedsOverdrive ==
    overdriveResult # <<>> =>
        LET numLWF == Cardinality({i \in Pieces :
                         \E pd \in RangeOf(availablePieces[i]) :
                            pd.launched /\ ~pd.failed})
            passed == \A pd \in OutstandingReads : pd.expectedCompletionTime <= now
        IN  IF numLWF < ec.minPieces \/ passed
            THEN overdriveResult = <<0, TRUE>>
            ELSE \E pd \in OutstandingReads :
                    /\ \A x \in OutstandingReads :
                          x.expectedCompletionTime <= pd.expectedCompletionTime
                    /\ overdriveResult =
                          <<pd.expectedCompletionTime - now + OverdriveGrace, FALSE>>

\* needsOverdrive answered with a wait although one read has failed, one
\* has completed and one outstanding read is already late.
C33_Witness ==
    /\ overdriveResult # <<>>
    /\ ~overdriveResult[2]
    /\ \E pd \in AllDownloads : pd.failed
    /\ \E pd \in AllDownloads : pd.completed
    /\ \E pd \in OutstandingReads : pd.expectedCompletionTime <= now

\* C34: when finalize runs, it asks Recover for piece_length * data_pieces
\* bytes, the bytes of the chunk from piece_offset * data_pieces on, and the
\* requested range [chunk_offset, chunk_offset + chunk_length) lies inside
\* them, so that slicing the buffer delivers the requested bytes and does
\* not fail.
C34_FinalizeDeliversRange ==
    [][\A o \in {"data", "errDecode", "panic"} :
          Finalize(o)
             => /\ finalizeRecoverLength(pieceOffset, ec.minPieces)
                      = pieceLength * ec.minPieces
                /\ chunkOffset - pieceOffset * ec.minPieces + chunkLength
                      <= finalizeRecoverLength(pieceOffset, ec.minPieces)
                /\ o # "panic"]_vars

\* The Merkle root of the leaves data[lo + 1 .. hi] by its definition: the
\* hash of the leaf, or the node over the roots of the largest power of two
\* of leaves that is less than their number and of the rest.
RECURSIVE MerkleRootOf(_, _, _)
MerkleRootOf(data, lo, hi) ==
    IF hi - lo = 1 THEN leafHash(data[lo + 1])
    ELSE LET k == CHOOSE p \in {2 ^ i : i \in Heights} : p < hi - lo /\ hi - lo <= 2 * p
         IN  nodeHash(MerkleRootOf(data, lo, lo + k), MerkleRootOf(data, lo + k, hi))

\* The sizes 2^i of the bits i of n that equal b, from bit `from` in steps
\* of `step` while the bit is in `within`.
RECURSIVE BitSizes(_, _, _, _, _)
BitSizes(n, b, from, step, within) ==
    IF from \notin within THEN <<>>
    ELSE (IF Bit(n, from) = b THEN <<2 ^ from>> ELSE <<>>)
         \o BitSizes(n, b, from + step, step, within)

\* Consecutive ranges of leaves of the given sizes from pos on, cut at
\* total and ending there.
RECURSIVE Segments(_, _, _)
Segments(sizes, pos, total) ==
    IF sizes = <<>> \/ pos >= total THEN <<>>
    ELSE LET hi == IF pos + Head(sizes) > total THEN total ELSE pos + Head(sizes)
         IN  <<[lo |-> pos, hi |-> hi]>> \o Segments(Tail(sizes), hi, total)

\* C35: the proof BuildRangeProof returns is the list of the roots of
\* consecutive subtrees: first one of 2^bit leaves for every set bit of
\* proofStart, largest first, which end exactly at proofStart; then, from
\* proofEnd on, one for every clear bit of proofEnd - 1, smallest first, of
\* 2^bit leaves or of the leaves that are left, which end exactly at the
\* last leaf.
C35_ProofSubtreesCoverOutside ==
    merklePc # "new" =>
        LET total == Len(leaves)
            leftSizes == BitSizes(proofStart, 1, WordBits - 1, 0 - 1, Heights)
            left == Segments(leftSizes, 0, total)
            right == Segments(BitSizes(proofEnd - 1, 0, 0, 1, 0 .. (WordBits - 2)),
                              proofEnd, total)
            all == left \o right
        IN  /\ Len(left) = Len(leftSizes)
            /\ \A k \in DOMAIN left : left[k].hi - left[k].lo = leftSizes[k]
            /\ IF left = <<>> THEN proofStart = 0
               ELSE left[Len(left)].hi = proofStart
            /\ IF right = <<>> THEN proofEnd = total
               ELSE right[Len(right)].hi = total
            /\ Len(proof) = Len(all)
            /\ \A k \in DOMAIN all :
                  proof[k] = MerkleRootOf(leaves, all[k].lo, all[k].hi)

\* A proof with two subtrees on the left and a last subtree on the right
\* that holds fewer leaves than its bit stands for.
C35_Witness ==
    /\ merklePc = "built"
    /\ proofStart = 3 /\ proofEnd = 4 /\ Len(leaves) = 7
    /\ Len(proof) = 3

\* ---------------------------------------------------------------------------
\* VerifyReaderRangeProof on the answer of a host: the proof hashes and a
\* reader of the leaves of the range.
\* ---------------------------------------------------------------------------

\* The longest proof list: one hash more than a word has bits (WordBits).
MaxProofLen == 6

\* A leaf the reader delivers is a number: v > 0 is the full leaf v of a
\* sector, -v the first bytes of it (a short read), 0 a full leaf of other
\* bytes.
IsShort(leaf) == leaf < 0

\* A hash that is no node of the sector's tree.
JunkHash == leafHash(0)

\* VerifyReaderRangeProof's loop over the leaves of the range, the reader at
\* leaf k of data: io.ReadFull delivers a full leaf, a short one with
\* ErrUnexpectedEOF, or nothing with EOF. A leaf of n > 0 bytes is appended;
\* the end of the data is accepted at the last leaf of the range only.
RECURSIVE ReadLeavesAnyShort(_, _, _, _, _)
ReadLeavesAnyShort(s, data, k, i, end) ==
    IF i >= end THEN [stack |-> s, err |-> "nil"]
    ELSE IF k > Len(data)
         THEN [stack |-> s, err |-> "nil"]
         ELSE LET s2 == AppendNode(s, leafHash(data[k]))
              IN  IF IsShort(data[k])
                  THEN [stack |-> s2, err |-> "nil"]
                  ELSE ReadLeavesAnyShort(s2, data, k + 1, i + 1, end)

RECURSIVE ReadLeaves(_, _, _, _, _)
ReadLeaves(s, data, k, i, end) ==
    IF i >= end THEN [stack |-> s, err |-> "nil"]
    ELSE IF k > Len(data)
         THEN [stack |-> s,
               err |-> IF i = end - 1 THEN "nil"
                       ELSE "insufficient leaf data in reader"]
         ELSE LET s2 == AppendNode(s, leafHash(data[k]))
              IN  IF IsShort(data[k])
                  THEN [stack |-> s2,
                        err |-> IF i = end - 1 THEN "nil"
                                ELSE "insufficient leaf data in reader"]
                  ELSE ReadLeaves(s2, data, k + 1, i + 1, end)

\* VerifyReaderRangeProof's last loop: for i := uint64(0); len(proof) > 0; i++.
\* 1 << i selects a bit of endMask while i is below the width of the word; a
\* counter past the width selects none until it is 0 again. The result is
\* <<stack, times the counter ran through its whole range>>.
RECURSIVE VerifyRightLoop(_, _, _, _, _)
VerifyRightLoop(s, endMask, i, pf, wraps) ==
    IF pf = <<>> THEN <<s, wraps>>
    ELSE IF i >= WordBits THEN VerifyRightLoop(s, endMask, 0, pf, wraps + 1)
    ELSE IF Bit(endMask, i) = 1
         THEN VerifyRightLoop(appendNodeAtHeight(s, Head(pf), i), endMask, i + 1,
                              Tail(pf), wraps)
         ELSE VerifyRightLoop(s, endMask, i + 1, pf, wraps)

\* VerifyReaderRangeProof: (ok, err), and the times the counter of the last
\* loop ran through its whole range before the proof was used up.
VerifyReaderRangeProof(data, start, end, pf, root) ==
    LET l == VerifyLeft(NewStack, start, WordBits - 1, pf)
        rd == ReadLeaves(l[1], data, 1, start, end)
        endMask == (2 ^ WordBits - end) % (2 ^ WordBits)
        r == VerifyRightLoop(rd.stack, endMask, 0, l[2], 0)
    IN  IF rd.err # "nil"
        THEN [ok |-> FALSE, err |-> rd.err, wraps |-> 0]
        ELSE [ok |-> StackRoot(r[1]) = root, err |-> "nil", wraps |-> r[2]]

\* The sectors a reader is built on: those of the Merkle engine, and the same
\* with a short last leaf.
ReaderSectors ==
    Sectors \cup {[i \in 1 .. n |-> IF i = n THEN 0 - i ELSE i] : n \in 1 .. MaxLeaves}

\* What a reader can deliver for the range h: all of it, a part of it, a part
\* of it ending in a short leaf, or all of it with one leaf of other bytes.
LeafStreams(h) ==
    LET n == Len(h)
    IN  {h}
        \cup {SubSeq(h, 1, k) : k \in 0 .. (n - 1)}
        \cup {Append(SubSeq(h, 1, k), 0 - h[k + 1]) : k \in {j \in 0 .. (n - 1) : h[j + 1] > 0}}
        \cup {[h EXCEPT ![k] = 0] : k \in 1 .. n}

notMerkleReaderVars ==
    <<downloadVars, selectVars, refCounterVars, hasSectorVars, poolVars, heapVars,
      dataSourceVars, overdriveVars, renewVars>>

ReaderInit ==
    /\ DownloadIdle
    /\ SelectIdle
    /\ RefCounterIdle
    /\ HasSectorIdle
    /\ PoolIdle
    /\ HeapIdle
    /\ DataSourceIdle
    /\ OverdriveIdle
    /\ RenewIdle
    /\ leaves \in ReaderSectors
    /\ proofStart \in 0 .. (Len(leaves) - 1)
    /\ proofEnd \in (proofStart + 1) .. Len(leaves)
    /\ proof = BuildRangeProof(proofStart, proofEnd, leaves)
    /\ verified = FALSE
    /\ merklePc = "built"
    /\ readerData = <<>>
    /\ verifyResult = <<>>

\* The host's answer holds one more hash than the proof it built.
HostAddsHash ==
    /\ merklePc = "built"
    /\ Len(proof) < MaxProofLen
    /\ proof' = Append(proof, JunkHash)
    /\ UNCHANGED <<leaves, proofStart, proofEnd, verified, merklePc, readerVars,
                   notMerkleReaderVars>>

\* The renter verifies the answer: VerifyRangeProof is ok && err == nil of
\* VerifyReaderRangeProof.
VerifyReader(data) ==
    /\ merklePc = "built"
    /\ readerData' = data
    /\ verifyResult' = VerifyReaderRangeProof(data, proofStart, proofEnd, proof,
                                              SectorRoot(leaves))
    /\ verified' = (verifyResult'.ok /\ verifyResult'.err = "nil")
    /\ merklePc' = "verified"
    /\ UNCHANGED <<leaves, proofStart, proofEnd, proof, notMerkleReaderVars>>

ReaderNext ==
    \/ HostAddsHash
    \/ \E data \in LeafStreams(SubSeq(leaves, proofStart + 1, proofEnd)) : VerifyReader(data)

ReaderSpec == ReaderInit /\ [][ReaderNext]_vars

\* The full leaves the reader delivers before its data ends.
RECURSIVE FullLeaves(_, _)
FullLeaves(data, k) ==
    IF k > Len(data) \/ IsShort(data[k]) THEN k - 1 ELSE FullLeaves(data, k + 1)

\* C36: VerifyReaderRangeProof accepts a short leaf as the last leaf of the
\* range only. When the reader's data ends before the last leaf of the range
\* the result is false with the insufficient-leaf-data error; otherwise there
\* is no error, and the result is true exactly when the leaves and the proof
\* are those of the sector, so a root that differs gives false without an
\* error.
C36_ShortLeafOnlyLast ==
    (merklePc = "verified" /\ verifyResult # <<>>) =>
        LET n == proofEnd - proofStart
            honest == /\ readerData = SubSeq(leaves, proofStart + 1, proofEnd)
                      /\ proof = BuildRangeProof(proofStart, proofEnd, leaves)
        IN  IF FullLeaves(readerData, 1) < n - 1
            THEN /\ verifyResult.ok = FALSE
                 /\ verifyResult.err = "insufficient leaf data in reader"
            ELSE /\ verifyResult.err = "nil"
                 /\ verifyResult.ok = honest

\* A range of three leaves whose reader delivers one full leaf and a short
\* one: the data ends before the last leaf.
C36_Witness ==
    /\ merklePc = "verified"
    /\ proofEnd - proofStart = 3
    /\ Len(readerData) = 2 /\ IsShort(readerData[2])
    /\ verifyResult.err = "insufficient leaf data in reader"

\* C37: VerifyReaderRangeProof returns before the counter of its last loop
\* has run past the width of the word, whatever the number of proof hashes.
C37_VerifierReturns ==
    (merklePc = "verified" /\ verifyResult # <<>>) => verifyResult.wraps = 0

\* C38: the chunk managedNextDownloadChunk returns is the first in heap order
\* (Less) among the chunks of the heap whose download is not complete.
C38_NextChunkIsFirstInHeapOrder ==
    [][(loopPc = "idle" /\ loopPc' = "acquiring") =>
          \A k \in 1 .. Len(downloadHeap) :
              downloadHeap[k].id \notin completeDownloads
                  => ~Less(downloadHeap[k], nextChunk')]_vars

\* C40: when the response of the base sector download carries an error,
\* skylinkDataSource returns an error that is not nil and no data source,
\* and its context is cancelled.
C40_FailedBaseSectorReturnsError ==
    [][(\E parseErr \in ParseErrors, layout \in SdsLayouts,
           fanoutErr \in FanoutErrors, failAt \in 0 .. MaxFanoutChunks - 1 :
           skylinkDataSourceFinish("err", parseErr, layout, fanoutErr, failAt))
          => (dsErr' # "nil" /\ sds' = <<>> /\ dsCancelled')]_vars

\* ---------------------------------------------------------------------------
\* ContractSet.RenewContract: the renewal of a contract over the renew RPC.
\* ---------------------------------------------------------------------------

MaxContracts == 3

ContractIds == 1 .. MaxContracts

\* The id of the contract that renews contract fcid.
RenewedId(fcid) == fcid + MaxContracts

\* The steps between the recorded intent and the submission that can fail,
\* each with the context of its error.
NegotiationErrors ==
    {"Unable to create new contract",
     "failed to prepare txnSet with finalRev and new contract",
     "failed to write RPCRenewContractRequest",
     "failed to read RPCRenewContractCollateralResponse",
     "failed to send RPCRenewContractFinalRevisionSig to host",
     "failed to read RPCRenewContractFinalRevisionSig from host",
     "failed to sign transaction set",
     "failed to send RPCRenewContractRenterSignatures to host",
     "failed to read RPCRenewContractRenterSignatures from host"}

RenewInit ==
    /\ DownloadIdle
    /\ SelectIdle
    /\ MerkleIdle
    /\ RefCounterIdle
    /\ HasSectorIdle
    /\ PoolIdle
    /\ HeapIdle
    /\ DataSourceIdle
    /\ OverdriveIdle
    /\ ReaderIdle
    /\ renewPc = "idle"
    /\ renewContracts \in SUBSET ContractIds
    /\ renewAcquired = {}
    /\ renewWal = "none"
    /\ renewTpool = FALSE
    /\ renewEvents = <<>>
    /\ renewResult = "none"

\* A return of RenewContract with err.
RenewReturn(err) ==
    /\ renewPc' = "returned"
    /\ renewResult' = err

\* RenewContract up to the recorded intent: Acquire the contract, prepare
\* its final revision and record the intent to clear it in the WAL.
RenewRecordIntent(fcid, finalRevErr, walErr) ==
    /\ renewPc = "idle"
    /\ IF fcid \notin renewContracts
       THEN /\ RenewReturn("RenewContract: failed to acquire contract to renew")
            /\ UNCHANGED <<renewAcquired, renewWal>>
       ELSE /\ renewAcquired' = renewAcquired \cup {fcid}
            /\ IF finalRevErr # "nil"
               THEN /\ RenewReturn(AddContext(finalRevErr, "Unable to create final revision"))
                    /\ UNCHANGED renewWal
               ELSE IF walErr # "nil"
               THEN /\ RenewReturn(AddContext(walErr,
                                       "failed to record clear contract intent"))
                    /\ UNCHANGED renewWal
               ELSE /\ renewWal' = "recorded"
                    /\ renewPc' = "intent"
                    /\ UNCHANGED renewResult
    /\ UNCHANGED <<renewContracts, renewTpool, renewEvents>>
    /\ UNCHANGED notRenewVars

\* RenewContract from the new file contract to the final transaction set:
\* the exchange with the host; failed is the context of the step that fails,
\* "nil" when none does.
RenewNegotiate(failed) ==
    /\ renewPc = "intent"
    /\ IF failed # "nil"
       THEN RenewReturn(AddContext("err", failed))
       ELSE /\ renewPc' = "negotiated"
            /\ UNCHANGED renewResult
    /\ UNCHANGED <<renewContracts, renewAcquired, renewWal, renewTpool, renewEvents>>
    /\ UNCHANGED notRenewVars

\* RenewContract from the submission on: the transaction pool accepts the
\* set (a duplicate set counts as accepted), the header of the new contract
\* is inserted into the contract set with the roots of the old one, the
\* intent on the old contract is committed, and the function ends in
\* panic("success").
RenewFinish(tpoolErr, rootsErr, insertErr, commitErr) ==
    /\ renewPc = "negotiated"
    /\ LET err == IF tpoolErr = "ErrDuplicateTransactionSet" THEN "nil" ELSE tpoolErr
           fcid == CHOOSE id \in renewAcquired : TRUE
       IN  IF err # "nil"
           THEN /\ RenewReturn(AddContext(err,
                                   "failed to submit txnSet for renewal to blockchain"))
                /\ UNCHANGED <<renewContracts, renewWal, renewTpool, renewEvents>>
           ELSE /\ renewTpool' = TRUE
                /\ IF rootsErr # "nil"
                   THEN /\ RenewReturn(rootsErr)
                        /\ UNCHANGED <<renewContracts, renewWal, renewEvents>>
                   ELSE IF insertErr # "nil"
                   THEN /\ RenewReturn(insertErr)
                        /\ UNCHANGED <<renewContracts, renewWal, renewEvents>>
                   ELSE /\ renewContracts' = renewContracts \cup {RenewedId(fcid)}
                        /\ IF commitErr # "nil"
                           THEN /\ RenewReturn(commitErr)
                                /\ renewEvents' = Append(renewEvents, "insert")
                                /\ UNCHANGED renewWal
                           ELSE /\ renewWal' = "committed"
                                /\ renewEvents' = renewEvents \o <<"insert", "commit">>
                                /\ renewPc' = "panicked"
                                /\ renewResult' = "panic: success"
    /\ UNCHANGED renewAcquired
    /\ UNCHANGED notRenewVars

RenewNext ==
    \/ \E fcid \in ContractIds, finalRevErr, walErr \in {"nil", "err"} :
          RenewRecordIntent(fcid, finalRevErr, walErr)
    \/ \E failed \in NegotiationErrors \cup {"nil"} : RenewNegotiate(failed)
    \/ \E tpoolErr \in {"nil", "ErrDuplicateTransactionSet", "tpool err"},
          rootsErr \in {"nil", "roots err"}, insertErr \in {"nil", "insert err"},
          commitErr \in {"nil", "commit err"} :
          RenewFinish(tpoolErr, rootsErr, insertErr, commitErr)

RenewSpec == RenewInit /\ [][RenewNext]_vars

\* C39: once the transaction pool has accepted the renewal set, the header
\* is inserted and the intent committed, RenewContract returns without error,
\* the insertion coming before the commit.
C39_RenewSuccessReturnsNil ==
    [][(renewPc = "negotiated" /\ renewWal' = "committed") =>
          /\ renewTpool'
          /\ renewEvents' = <<"insert", "commit">>
          /\ renewResult' = "nil"]_vars

=============================================================================
